---------------------------- MODULE Spec2Model ----------------------------
(***************************************************************************)
(* A model of the character/combat core of vigilante:                      *)
(*   - the timed callback scheduler (CallbackManager),                     *)
(*   - Character's combat operations (attack, inflictDamage,               *)
(*     receiveDamage, cancelAttack, regeneration, the death path),         *)
(*   - Character's inventory and equipment ledger.                         *)
(* Time is counted in units of 0.1 simulation-seconds.                     *)
(***************************************************************************)
EXTENDS Integers, Sequences, FiniteSets, TLC

(***************************************************************************)
(* Bounds of the model.                                                    *)
(***************************************************************************)
\* The clock stops at MaxTime (units of 0.1 s).
MaxTime == 5
\* The largest hit count an attack is called with.
MaxHits == 2
\* The number of calls other than update() made in one run.
MaxEvents == 3
\* The largest amount the ledger holds of one item.
MaxAmount == 3

(***************************************************************************)
(* Program constants.                                                      *)
(***************************************************************************)
\* constexpr float kNumSecCantMove = 0.2f
kNumSecCantMove == 2
\* if (_statsRegenTimer >= 5.0f)
kStatsRegenPeriod == 50
\* enemy->inflictDamage(this, 25)
kBodyContactDamage == 25
\* rand_util::randInt(-5, 5)
kJitter == 5
\* the dodge's invincibility window, 0.2f
kDodgeInvincibleTime == 2
\* jump(): jumping again is disallowed for 0.2 s
kJumpLockTime == 2
\* doubleJump(): the second jump() is requested .25f later (rounded up)
kDoubleJumpDelay == 3

None == "none"

Chars == {"p", "a", "e"}

\* The party: "p" leads, "a" is its only member; "e" belongs to no party.
PartyLeader == "p"
PartyMembers == {"a"}

\* Character::Profile, read from the character's json file, and the durations
\* of the animations built from its frame intervals.
Profile ==
  [p |-> [fullHealth |-> 30, baseMeleeDamage |-> 3,  attackDelay |-> 1,
          attackDuration |-> 3, blockHitDuration |-> 1, dodgeDuration |-> 3,
          killedDuration |-> 2, hasUnarmedAttackAnimation |-> FALSE,
          introDuration |-> 2, fallingGetUpDuration |-> 2, jumpHeight |-> 3,
          canDoubleJump |-> FALSE, hasGetUpFromFallingAnimation |-> TRUE,
          stamina |-> 10, fullStamina |-> 10, moveSpeed |-> 1],
   a |-> [fullHealth |-> 30, baseMeleeDamage |-> 10, attackDelay |-> 2,
          attackDuration |-> 3, blockHitDuration |-> 1, dodgeDuration |-> 3,
          killedDuration |-> 2, hasUnarmedAttackAnimation |-> FALSE,
          introDuration |-> 2, fallingGetUpDuration |-> 2, jumpHeight |-> 3,
          canDoubleJump |-> FALSE, hasGetUpFromFallingAnimation |-> TRUE,
          stamina |-> 10, fullStamina |-> 10, moveSpeed |-> 1],
   e |-> [fullHealth |-> 30, baseMeleeDamage |-> 20, attackDelay |-> 2,
          attackDuration |-> 3, blockHitDuration |-> 1, dodgeDuration |-> 3,
          killedDuration |-> 2, hasUnarmedAttackAnimation |-> FALSE,
          introDuration |-> 2, fallingGetUpDuration |-> 2, jumpHeight |-> 3,
          canDoubleJump |-> FALSE, hasGetUpFromFallingAnimation |-> TRUE,
          stamina |-> 10, fullStamina |-> 10, moveSpeed |-> 1]]

\* Skill::Profile, read from the skill's json file: a melee skill whose hits
\* are scheduled when the weapon touches an enemy.
Skills == {"slash"}
\* The skills of SpecSkills: ForwardSlash, which costs stamina, and two
\* toggleable skills, of which "ward" is forked on every activation.
AllSkills == {"slash", "forwardSlash", "aura", "ward"}
SkillProfile ==
  [slash |-> [skillType |-> "MELEE", physicalDamage |-> 5,
              numTimesInflictDamage |-> MaxHits, damageInflictionInterval |-> 1,
              framesDuration |-> 3, isToggleable |-> FALSE,
              shouldForkInstance |-> FALSE, deltaStamina |-> 0,
              characterFramesName |-> ""],
   forwardSlash |-> [skillType |-> "MELEE", physicalDamage |-> 5,
              numTimesInflictDamage |-> 1, damageInflictionInterval |-> 1,
              framesDuration |-> 4, isToggleable |-> FALSE,
              shouldForkInstance |-> FALSE, deltaStamina |-> 0 - 6,
              characterFramesName |-> "forward_slash"],
   aura |-> [skillType |-> "MAGIC", physicalDamage |-> 0,
              numTimesInflictDamage |-> 1, damageInflictionInterval |-> 1,
              framesDuration |-> 1, isToggleable |-> TRUE,
              shouldForkInstance |-> FALSE, deltaStamina |-> 0 - 2,
              characterFramesName |-> "spellcast"],
   ward |-> [skillType |-> "MAGIC", physicalDamage |-> 0,
              numTimesInflictDamage |-> 1, damageInflictionInterval |-> 1,
              framesDuration |-> 1, isToggleable |-> TRUE,
              shouldForkInstance |-> TRUE, deltaStamina |-> 0 - 2,
              characterFramesName |-> ""]]

\* int _baseRegenDeltaHealth, passed to regenHealth every 5 seconds.
BaseRegenDeltaHealth == [c \in Chars |-> 5]
\* int _baseRegenDeltaStamina, passed to regenStamina every 5 seconds.
BaseRegenDeltaStamina == [c \in Chars |-> 3]

\* The damage of the trigger (trap) a character may stand in.
TrapDamage == [c \in Chars |-> 10]

\* The characters that act in this model; "a" only stands by its leader.
Fighters == {"p", "e"}

\* The frame deltas update() is called with, and those of a fixed time step.
Deltas == {1, 2}
FixedDeltas == {2}
\* Values rand_util::randInt(-5, 5) returns: its extremes.
Jitters == {0 - kJitter, kJitter}
\* The arguments attack() is called with.
AttackStates == {"ATTACKING", "ATTACKING_MIDAIR", "IDLE"}
HitCounts == 1..MaxHits
HitIntervals == {0, 1}

\* Item definitions (json file names), their Item::Type and, for an equipment,
\* its Equipment::Type; the Item objects created from them.
Defs == {"sword", "axe", "potion"}
ItemTypeOf == [sword |-> "EQUIPMENT", axe |-> "EQUIPMENT", potion |-> "CONSUMABLE"]
EquipmentTypeOf == [sword |-> "WEAPON", axe |-> "WEAPON", potion |-> None]
Objs == {"sword1", "sword2", "axe1", "potion1"}
DefOf == [sword1 |-> "sword", sword2 |-> "sword", axe1 |-> "axe", potion1 |-> "potion"]
\* Consumable::Profile of the consumables.
ConsumableProfile == [potion |-> [restoreHealth |-> 10]]
\* The character that holds the ledger.
Holder == "p"
\* The amounts addItem and removeItem are called with.
Amounts == {1, 2}
\* The capacity the command history is constructed with (DEFAULT_HISTORY_SIZE,
\* scaled down), and the commands the console is given.
HistoryCapacity == 3
Cmds == {"help", "quit"}

VARIABLES
  ch,        \* the characters: name -> fields of Character
  pending,   \* CallbackManager: the scheduled closures not yet fired or cancelled
  nextId,    \* CallbackManager: the next callback id
  now,       \* simulation time, the sum of the tick deltas
  hist,      \* history: what became of every callback id scheduled so far
  last,      \* history: the receiveDamage call made by the latest step
  nEvents,   \* history: the number of calls other than update() so far
  items,           \* _items: definition -> the canonical Item object, or None
  amount,          \* Item::_amount of every Item object
  inventory,       \* _inventory: Item::Type -> set of Item objects
  equipmentSlots,  \* _equipmentSlots: Equipment::Type -> Item object, or None
  trip,            \* history: an addItem and the removeItem that followed it
  flags,           \* the behavioural flags determineState() is examined with
  resolved,        \* the state determineState() returned for them, or None
  fixtures,        \* _fixtures and the fixtures attached to _body
  portal,          \* the progress of a portal interaction and its helper thread
  locks,           \* the threads that touch the callback-id sets of a character
  cmdHistory       \* Console::_cmdHistory, a CircularBuffer<string>

combatVars == <<ch, pending, nextId, now, hist, last, nEvents>>
ledgerVars == <<items, amount, inventory, equipmentSlots, trip>>
flagVars == <<flags, resolved>>
sideVars == <<fixtures, portal, locks, cmdHistory>>
vars == <<ch, pending, nextId, now, hist, last, nEvents,
          items, amount, inventory, equipmentSlots, trip, flags, resolved,
          fixtures, portal, locks, cmdHistory>>

NoCall == [op |-> "none", tgt |-> None, src |-> None, dmg |-> 0, pre |-> 0, kind |-> "none"]

\* The state the operations below transform; `ret' carries a return value.
World == [ch |-> ch, pending |-> pending, nextId |-> nextId, now |-> now,
          hist |-> hist, last |-> NoCall, ret |-> TRUE]

(***************************************************************************)
(* Timed Callback Scheduler.                                               *)
(***************************************************************************)
Closure(kind, owner, target, damage) ==
  [kind |-> kind, owner |-> owner, target |-> target, damage |-> damage]

\* The place of a damage closure in its multi-hit sequence (history only): the
\* id of the sequence's first closure, the closure's index, and the hit count
\* and interval inflictDamage was called with.
Place(seq, idx, n, interval) == [seq |-> seq, idx |-> idx, n |-> n, interval |-> interval]
NoPlace == Place(0, 0, 0, 0)

\* History record of a callback: the time and the delay it was scheduled with,
\* its place, how often its closure ran, whether it ran before its delay had
\* elapsed, whether a cancelAttack of its owner came before it ran, and whether
\* cancel was called with its id after it had fired or had been cancelled.
HistEntry(cl, at, delay, place) ==
  [kind |-> cl.kind, owner |-> cl.owner, target |-> cl.target, at |-> at,
   delay |-> delay, place |-> place, status |-> "pending", runs |-> 0,
   early |-> FALSE, stale |-> FALSE, lateCancel |-> FALSE]

\* schedule(delay, closure) -> CallbackId; the id is w.nextId of the argument.
runAfterAt(w, cl, delay, place) ==
  [w EXCEPT !.pending = @ \cup {[id |-> w.nextId, at |-> w.now, delay |-> delay,
                                 cl |-> cl]},
            !.nextId = @ + 1,
            !.hist = Append(@, HistEntry(cl, w.now, delay, place))]

runAfter(w, cl, delay) == runAfterAt(w, cl, delay, NoPlace)

\* A cancel that forgets the request.
cancelIgnored(w, id) == w

\* cancel(id): a pending closure is dropped; any other id is a no-op.
cancel(w, id) ==
  IF \E cb \in w.pending : cb.id = id
    THEN [w EXCEPT !.pending = {cb \in @ : cb.id # id},
                   !.hist[id].status = "cancelled"]
    ELSE IF id \in DOMAIN w.hist THEN [w EXCEPT !.hist[id].lateCancel = TRUE]
    ELSE w

RECURSIVE cancelAll(_, _)
cancelAll(w, ids) ==
  IF ids = {} THEN w
  ELSE LET id == CHOOSE i \in ids : \A j \in ids : i <= j
       IN cancelAll(cancel(w, id), ids \ {id})

\* A scheduler that takes every pending closure to be due.
DueAtOnce(w) == w.pending

\* The closures due at the current time, which the tick's update pass fires.
Due(w) == {cb \in w.pending : cb.at + cb.delay <= w.now}

(***************************************************************************)
(* Combat Resolution Engine.                                               *)
(***************************************************************************)
getAllies(c) ==
  IF c # PartyLeader /\ c \notin PartyMembers THEN {}
  ELSE PartyMembers \cup (IF PartyLeader # c THEN {PartyLeader} ELSE {})

\* Every not yet executed damage closure of c, whether c tracks its id or not
\* (history only).
RECURSIVE MarkStaleFrom(_, _, _)
MarkStaleFrom(w, c, i) ==
  IF i > Len(w.hist) THEN w
  ELSE MarkStaleFrom(
         IF w.hist[i].kind = "damage" /\ w.hist[i].owner = c /\ w.hist[i].runs = 0
           THEN [w EXCEPT !.hist[i].stale = TRUE] ELSE w,
         c, i + 1)

MarkStale(w, c) == MarkStaleFrom(w, c, 1)

\* A cancelAttack that leaves the scheduled damage closures alone.
cancelAttackKeepingHits(w, c) ==
  LET w0 == MarkStale(w, c)
      w1 == [w0 EXCEPT !.ch[c].isAttacking = FALSE,
                       !.ch[c].overridingAttackState = None,
                       !.ch[c].airAttack = FALSE]
      w2 == cancelAll(w1, w1.ch[c].cancelAttackCallbacks)
  IN [w2 EXCEPT !.ch[c].cancelAttackCallbacks = {}]

cancelAttack(w, c) ==
  LET w0 == MarkStale(w, c)
      w1 == [w0 EXCEPT !.ch[c].isAttacking = FALSE,
                       !.ch[c].overridingAttackState = None,
                       !.ch[c].airAttack = FALSE]
      w2 == cancelAll(w1, w1.ch[c].cancelAttackCallbacks)
      w3 == [w2 EXCEPT !.ch[c].cancelAttackCallbacks = {}]
      w4 == cancelAll(w3, w3.ch[c].inflictDamageCallbacks)
  IN [w4 EXCEPT !.ch[c].inflictDamageCallbacks = {}]

\* The order in which this model walks a set of characters.
Rank == [p |-> 1, a |-> 2, e |-> 3]
First(cs) == CHOOSE x \in cs : \A y \in cs : Rank[x] <= Rank[y]

\* for (const auto& sourceAlly : source->getAllies()) { ... }
RECURSIVE ForgetTarget(_, _, _)
ForgetTarget(w, allies, t) ==
  IF allies = {} THEN w
  ELSE LET x == First(allies)
       IN ForgetTarget([w EXCEPT !.ch[x].inRangeTargets = @ \ {t},
                                 !.ch[x].lockedOnTarget = IF @ = t THEN None ELSE @],
                       allies \ {x}, t)

\* The death branch of receiveDamage: the source and its allies forget t.
ClearReferences(w, t, src) ==
  IF src = None THEN w
  ELSE ForgetTarget([w EXCEPT !.ch[src].lockedOnTarget = None,
                              !.ch[src].inRangeTargets = @ \ {t}],
                    getAllies(src), t)

Called(w, t, src, damage, kind) ==
  [op |-> "receiveDamage", tgt |-> t, src |-> src, dmg |-> damage,
   pre |-> w.ch[t].health, kind |-> kind]

\* The guards of receiveDamage that drop the ones on the source.
rejectsDamageIgnoringSource(w, t, src) ==
  w.ch[t].isSetToKill \/ w.ch[t].isInvincible

\* The guards of receiveDamage: the call returns false without a change.
rejectsDamage(w, t, src) ==
  \/ w.ch[t].isSetToKill \/ w.ch[t].isInvincible
  \/ (src # None /\ (w.ch[src].isSetToKill \/ w.ch[src].isKilled))

\* The end of receiveDamage with `< 0' in the place of `<= 0'.
dieIfBelowZero(w, t, src) ==
  IF w.ch[t].health < 0
    THEN LET w1 == [w EXCEPT !.ch[t].health = 0]
             w2 == ClearReferences(w1, t, src)
         IN [w2 EXCEPT !.ch[t].isSetToKill = TRUE]
    ELSE w

\* The end of receiveDamage: at health <= 0 the character is marked for death.
dieIfDepleted(w, t, src) ==
  IF w.ch[t].health <= 0
    THEN LET w1 == [w EXCEPT !.ch[t].health = 0]
             w2 == ClearReferences(w1, t, src)
         IN [w2 EXCEPT !.ch[t].isSetToKill = TRUE]
    ELSE w

\* A receiveDamage that lets the damage through a raised guard.
receiveDamageThroughGuard(w, t, src, damage, takeDamageDuration) ==
  IF rejectsDamage(w, t, src)
    THEN [w EXCEPT !.ret = FALSE, !.last = Called(w, t, src, damage, "rejected")]
  ELSE IF w.ch[t].isBlocking
    THEN LET w1 == [w EXCEPT !.ch[t].isHitWhileBlocking = TRUE,
                             !.ch[t].health = @ - damage]
             w2 == runAfter(w1, Closure("blockHitEnd", t, None, 0),
                            Profile[t].blockHitDuration)
         IN [w2 EXCEPT !.ret = TRUE, !.last = Called(w, t, src, damage, "blocked")]
  ELSE
    LET w1 == [w EXCEPT !.ch[t].health = @ - damage,
                        !.ch[t].isTakingDamageFromTraps = (src = None)]
        w2 == IF src # None
                THEN runAfter([w1 EXCEPT !.ch[t].isTakingDamage = TRUE],
                              Closure("takeDamageEnd", t, None, 0), takeDamageDuration)
                ELSE w1
        w3 == cancelAttack(w2, t)
        w4 == dieIfDepleted(w3, t, src)
    IN [w4 EXCEPT !.ret = TRUE, !.last = Called(w, t, src, damage, "applied")]

receiveDamage(w, t, src, damage, takeDamageDuration) ==
  IF rejectsDamage(w, t, src)
    THEN [w EXCEPT !.ret = FALSE, !.last = Called(w, t, src, damage, "rejected")]
  ELSE IF w.ch[t].isBlocking
    THEN LET w1 == [w EXCEPT !.ch[t].isHitWhileBlocking = TRUE]
             w2 == runAfter(w1, Closure("blockHitEnd", t, None, 0),
                            Profile[t].blockHitDuration)
         IN [w2 EXCEPT !.ret = TRUE, !.last = Called(w, t, src, damage, "blocked")]
  ELSE
    LET w1 == [w EXCEPT !.ch[t].health = @ - damage,
                        !.ch[t].isTakingDamageFromTraps = (src = None)]
        w2 == IF src # None
                THEN runAfter([w1 EXCEPT !.ch[t].isTakingDamage = TRUE],
                              Closure("takeDamageEnd", t, None, 0), takeDamageDuration)
                ELSE w1
        w3 == cancelAttack(w2, t)
        w4 == dieIfDepleted(w3, t, src)
    IN [w4 EXCEPT !.ret = TRUE, !.last = Called(w, t, src, damage, "applied")]

lockOn(w, c, target) ==
  [w EXCEPT !.ch[c].isAlerted = TRUE, !.ch[c].lockedOnTarget = target]

\* for (const auto& ally : allies) { ally->lockOn(target); }
RECURSIVE lockOnAll(_, _, _)
lockOnAll(w, allies, target) ==
  IF allies = {} THEN w
  ELSE lockOnAll(lockOn(w, First(allies), target), allies \ {First(allies)}, target)

\* inflictDamage(Character* target, int damage)
inflictDamage(w, c, target, damage) ==
  IF target = None THEN [w EXCEPT !.ret = FALSE]
  ELSE
    LET w1 == receiveDamage(w, target, c, damage, kNumSecCantMove)
        w2 == lockOn(w1, target, c)
        w3 == lockOnAll(w2, getAllies(c), target)
        w4 == lockOnAll(w3, getAllies(target), c)
    IN [w4 EXCEPT !.ret = TRUE]

knockBack(w, target) ==
  IF target = None THEN w ELSE [w EXCEPT !.ch[target].knockBacks = @ + 1]

\* The loop of inflictDamage with the delays counted from 1 instead of 0.
RECURSIVE scheduleHitsShifted(_, _, _, _, _, _, _)
scheduleHitsShifted(w, c, target, damage, n, interval, i) ==
  IF i >= n THEN w
  ELSE LET id == w.nextId
           w1 == runAfterAt(w, Closure("damage", c, target, damage),
                            Profile[c].attackDelay + interval * (i + 1),
                            Place(id - i, i, n, interval))
           w2 == [w1 EXCEPT !.ch[c].inflictDamageCallbacks = @ \cup {id}]
       IN scheduleHitsShifted(w2, c, target, damage, n, interval, i + 1)

\* inflictDamage(Character* target, int damage, int numTimesInflictDamage,
\*               float damageInflictionInterval)
RECURSIVE scheduleHits(_, _, _, _, _, _, _)
scheduleHits(w, c, target, damage, n, interval, i) ==
  IF i >= n THEN w
  ELSE LET id == w.nextId
           w1 == runAfterAt(w, Closure("damage", c, target, damage),
                            Profile[c].attackDelay + interval * i,
                            Place(id - i, i, n, interval))
           w2 == [w1 EXCEPT !.ch[c].inflictDamageCallbacks = @ \cup {id}]
       IN scheduleHits(w2, c, target, damage, n, interval, i + 1)

inflictDamageMulti(w, c, target, damage, n, interval) ==
  IF target = None THEN [w EXCEPT !.ret = FALSE]
  ELSE IF n = 0 THEN [w EXCEPT !.ret = FALSE]
  ELSE [scheduleHits(w, c, target, damage, n, interval, 0) EXCEPT !.ret = TRUE]

\* A damage closure without the check made when it fires.
damageClosureUnchecked(w, id, c, target, damage) ==
  LET w1 == inflictDamage(w, c, target, damage)
      w2 == knockBack(w1, target)
  IN [w2 EXCEPT !.ch[c].inflictDamageCallbacks = @ \ {id}]

\* The closure inflictDamage schedules for one hit.
damageClosure(w, id, c, target, damage) ==
  IF w.ch[c].isTakingDamage \/ target \notin w.ch[c].inRangeTargets
    THEN [w EXCEPT !.hist[id].status = "skipped"]
  ELSE LET w1 == inflictDamage(w, c, target, damage)
           w2 == knockBack(w1, target)
       IN [w2 EXCEPT !.ch[c].inflictDamageCallbacks = @ \ {id}]

\* The closure attack() schedules: the attack animation is over.
\* An attack closure that leaves the pinned state in place.
attackEndClosureKeepingOverride(w, id, c) ==
  [w EXCEPT !.ch[c].isAttacking = FALSE,
            !.ch[c].airAttack = FALSE,
            !.ch[c].cancelAttackCallbacks = @ \ {id}]

attackEndClosure(w, id, c) ==
  [w EXCEPT !.ch[c].isAttacking = FALSE,
            !.ch[c].overridingAttackState = None,
            !.ch[c].airAttack = FALSE,
            !.ch[c].cancelAttackCallbacks = @ \ {id}]

isAttackState(s) ==
  s \in {"ATTACKING", "ATTACKING_UNARMED", "ATTACKING_UNARMED_CROUCH",
         "ATTACKING_UNARMED_MIDAIR", "ATTACKING_CROUCH", "ATTACKING_FORWARD",
         "ATTACKING_MIDAIR", "ATTACKING_MIDAIR_DOWNWARD", "ATTACKING_UPWARD"}

\* An isAttackingDisallowed that lets a character attack while it takes damage.
isAttackingDisallowedUnlessHurt(w, c) ==
  \/ w.ch[c].isAttacking
  \/ w.ch[c].isUsingSkill
  \/ w.ch[c].isGettingUpFromFalling
  \/ w.ch[c].isStunned
  \/ w.ch[c].isBlocking
  \/ w.ch[c].isRunningIntroAnimation

isAttackingDisallowed(w, c) ==
  \/ w.ch[c].isAttacking
  \/ w.ch[c].isUsingSkill
  \/ w.ch[c].isGettingUpFromFalling
  \/ w.ch[c].isStunned
  \/ w.ch[c].isTakingDamage
  \/ w.ch[c].isBlocking
  \/ w.ch[c].isRunningIntroAnimation

getAttackAnimationDuration(c, state) == Profile[c].attackDuration

\* baseMeleeDamage + the equipped weapon's bonus + randInt(-5, 5)
getDamageOutput(w, c, jitter) ==
  Profile[c].baseMeleeDamage + w.ch[c].weaponBonus + jitter

\* The loop of attack() without its check of the target's invincibility.
RECURSIVE attackTargetsInvincibleToo(_, _, _, _, _, _)
attackTargetsInvincibleToo(w, c, targets, n, interval, jit) ==
  IF targets = {} THEN w
  ELSE LET t == First(targets)
           w1 == inflictDamageMulti(w, c, t, getDamageOutput(w, c, jit[t]), n, interval)
       IN attackTargetsInvincibleToo(w1, c, targets \ {t}, n, interval, jit)

RECURSIVE attackTargets(_, _, _, _, _, _)
attackTargets(w, c, targets, n, interval, jit) ==
  IF targets = {} THEN w
  ELSE LET t == First(targets)
           w1 == IF w.ch[t].isInvincible THEN w
                 ELSE inflictDamageMulti(w, c, t, getDamageOutput(w, c, jit[t]), n, interval)
       IN attackTargets(w1, c, targets \ {t}, n, interval, jit)

\* An attack that does not record the requested state as the override.
attackWithoutOverride(w, c, attackState, n, interval, jit) ==
  IF ~isAttackState(attackState) THEN [w EXCEPT !.ret = FALSE]
  ELSE IF isAttackingDisallowed(w, c) THEN [w EXCEPT !.ret = FALSE]
  ELSE
    LET w1 == [w EXCEPT !.ch[c].isAttacking = TRUE,
                        !.ch[c].airAttack =
                           (attackState = "ATTACKING_MIDAIR" /\ w.ch[c].isJumping)]
        id == w1.nextId
        w2 == runAfter(w1, Closure("attackEnd", c, None, 0),
                       getAttackAnimationDuration(c, attackState))
        w3 == [w2 EXCEPT !.ch[c].cancelAttackCallbacks = @ \cup {id}]
    IN IF w3.ch[c].inRangeTargets = {} THEN [w3 EXCEPT !.ret = FALSE]
       ELSE [attackTargets(w3, c, w3.ch[c].inRangeTargets, n, interval, jit)
               EXCEPT !.ret = TRUE]

attack(w, c, attackState, n, interval, jit) ==
  IF ~isAttackState(attackState) THEN [w EXCEPT !.ret = FALSE]
  ELSE IF isAttackingDisallowed(w, c) THEN [w EXCEPT !.ret = FALSE]
  ELSE
    LET w1 == [w EXCEPT !.ch[c].isAttacking = TRUE,
                        !.ch[c].overridingAttackState =
                           IF attackState # "ATTACKING" THEN attackState ELSE @,
                        !.ch[c].airAttack =
                           (attackState = "ATTACKING_MIDAIR" /\ w.ch[c].isJumping)]
        id == w1.nextId
        w2 == runAfter(w1, Closure("attackEnd", c, None, 0),
                       getAttackAnimationDuration(c, attackState))
        w3 == [w2 EXCEPT !.ch[c].cancelAttackCallbacks = @ \cup {id}]
    IN IF w3.ch[c].inRangeTargets = {} THEN [w3 EXCEPT !.ret = FALSE]
       ELSE [attackTargets(w3, c, w3.ch[c].inRangeTargets, n, interval, jit)
               EXCEPT !.ret = TRUE]

onBodyContactWithEnemyBody(w, c, enemy) ==
  IF enemy = None THEN w
  ELSE IF w.ch[c].isInvincible THEN w
  ELSE inflictDamage(knockBack(w, c), enemy, c, kBodyContactDamage)

onMeleeWeaponContactWithEnemyBody(w, c, enemy, jitter) ==
  IF /\ w.ch[c].isUsingSkill
     /\ SkillProfile[w.ch[c].currentlyUsedSkill].skillType = "MELEE"
     /\ SkillProfile[w.ch[c].currentlyUsedSkill].physicalDamage # 0
    THEN LET sk == SkillProfile[w.ch[c].currentlyUsedSkill]
         IN inflictDamageMulti(w, c, enemy,
                               getDamageOutput(w, c, jitter) + sk.physicalDamage,
                               sk.numTimesInflictDamage, sk.damageInflictionInterval)
    ELSE w

isSkillActivationDisallowed(w, c) ==
  \/ w.ch[c].isAttacking
  \/ w.ch[c].isUsingSkill
  \/ w.ch[c].isGettingUpFromFalling
  \/ w.ch[c].isStunned
  \/ w.ch[c].isBlocking
  \/ w.ch[c].isRunningIntroAnimation

\* A Skill object: the instance the character added with addSkill (fork 0),
\* or the n-th one Skill::create made for an activation.
Instance(skill, fork) == [skill |-> skill, fork |-> fork]
\* The null shared_ptr<Skill>.
NoInstance == Instance(None, 0)

\* _activeSkillInstances.find(key), the key comparing equal to the instance
\* that rawSkill points to.
getActiveSkillInstance(w, c, skill) ==
  IF Instance(skill, 0) \in w.ch[c].activeSkillInstances
    THEN Instance(skill, 0) ELSE NoInstance

removeActiveSkillInstance(w, c, skill) ==
  [w EXCEPT !.ch[c].activeSkillInstances = @ \ {Instance(skill, 0)}]

\* ForwardSlash::canActivate; the other skills ask the same of their delta.
canActivate(w, c, skill) == w.ch[c].stamina + SkillProfile[skill].deltaStamina >= 0

\* ForwardSlash::activate (_hasActivated is never set): the stamina is
\* spent, the user is invincible for the skill's duration, and two closures
\* are scheduled.
ForwardSlashActivate(w, c, inst) ==
  LET sk == SkillProfile[inst.skill]
      w1 == [w EXCEPT !.ch[c].stamina = @ + sk.deltaStamina,
                      !.ch[c].isInvincible = TRUE]
      w2 == runAfter(w1, Closure("gravityEnd", c, None, 0), sk.framesDuration \div 4)
  IN runAfter(w2, Closure("forwardSlashEnd", c, None, inst.fork), sk.framesDuration)

\* skill->activate() of the instance that was added to the active ones; the
\* two toggleable skills spend their stamina, "slash" changes nothing here.
SkillActivate(w, c, inst) ==
  IF inst.skill = "forwardSlash" THEN ForwardSlashActivate(w, c, inst)
  ELSE [w EXCEPT !.ch[c].stamina = @ + SkillProfile[inst.skill].deltaStamina]

\* runAnimation(framesName, interval): _bodySprite->stopAllActions() ends the
\* running animation of the sprite, the KILLED one and its callback included.
runSkillAnimation(w, c, skill) ==
  IF SkillProfile[skill].characterFramesName = "" THEN w
  ELSE [w EXCEPT !.ch[c].killAnimation = FALSE, !.ch[c].killAnimationLeft = 0]

\* An activateSkill that spends the skill's stamina before it asks
\* canActivate().
activateSkillPayingFirst(w, c, skill) ==
  IF skill = None THEN [w EXCEPT !.ret = FALSE]
  ELSE IF isSkillActivationDisallowed(w, c) THEN [w EXCEPT !.ret = FALSE]
  ELSE IF ~canActivate(w, c, skill)
    THEN [w EXCEPT !.ch[c].stamina = @ + SkillProfile[skill].deltaStamina,
                   !.ret = FALSE]
  ELSE
    LET w1 == [w EXCEPT !.ch[c].isUsingSkill = TRUE,
                        !.ch[c].currentlyUsedSkill = skill]
        w2 == runAfter(w1, Closure("skillEnd", c, None, 0),
                       SkillProfile[skill].framesDuration)
        w3 == [w2 EXCEPT !.ch[c].activeSkillInstances = @ \cup {Instance(skill, 0)}]
    IN [SkillActivate(w3, c, Instance(skill, 0)) EXCEPT !.ret = TRUE]

activateSkill(w, c, skill) ==
  IF skill = None THEN [w EXCEPT !.ret = FALSE]
  ELSE IF isSkillActivationDisallowed(w, c) THEN [w EXCEPT !.ret = FALSE]
  ELSE IF /\ SkillProfile[skill].isToggleable
          /\ getActiveSkillInstance(w, c, skill) # NoInstance
    THEN LET w1 == removeActiveSkillInstance(w, c, skill)
         IN [w1 EXCEPT !.ch[c].isUsingSkill = FALSE,
                       !.ch[c].currentlyUsedSkill = None,
                       !.ret = TRUE]
  ELSE IF ~canActivate(w, c, skill) THEN [w EXCEPT !.ret = FALSE]
  ELSE
    LET w1 == [w EXCEPT !.ch[c].isUsingSkill = TRUE,
                        !.ch[c].currentlyUsedSkill = skill]
        w2 == runSkillAnimation(
                runAfter(w1, Closure("skillEnd", c, None, 0),
                         SkillProfile[skill].framesDuration), c, skill)
        inst == IF SkillProfile[skill].shouldForkInstance
                  THEN Instance(skill, w2.ch[c].nextFork) ELSE Instance(skill, 0)
        w3 == [w2 EXCEPT !.ch[c].activeSkillInstances = @ \cup {inst},
                         !.ch[c].nextFork =
                            IF SkillProfile[skill].shouldForkInstance THEN @ + 1 ELSE @]
    IN [SkillActivate(w3, c, inst) EXCEPT !.ret = TRUE]

regenHealth(w, c, deltaHealth) ==
  LET h == w.ch[c].health + deltaHealth
  IN [w EXCEPT !.ch[c].health =
        IF h > Profile[c].fullHealth THEN Profile[c].fullHealth ELSE h]

regenStamina(w, c, deltaStamina) ==
  LET st == w.ch[c].stamina + deltaStamina
  IN [w EXCEPT !.ch[c].stamina =
        IF st > Profile[c].fullStamina THEN Profile[c].fullStamina ELSE st]

isDodging(w, c) == w.ch[c].isDodgingBackward \/ w.ch[c].isDodgingForward

isJumpingDownDisallowed(w, c) ==
  \/ w.ch[c].isAttacking
  \/ w.ch[c].isGettingUpFromFalling
  \/ w.ch[c].isStunned
  \/ w.ch[c].isBlocking
  \/ w.ch[c].isRunningIntroAnimation
  \/ (w.ch[c].isTakingDamage /\ ~w.ch[c].isTakingDamageFromTraps)

isMovementDisallowed(w, c) == w.ch[c].isCrouching \/ isJumpingDownDisallowed(w, c)

dodge(w, c, forward) ==
  IF isDodging(w, c) \/ w.ch[c].isDoubleJumping \/ isMovementDisallowed(w, c) THEN w
  ELSE
    LET w1 == runAfter([w EXCEPT !.ch[c].isInvincible = TRUE],
                       Closure("invincibleEnd", c, None, 0), kDodgeInvincibleTime)
        w2 == IF forward THEN [w1 EXCEPT !.ch[c].isDodgingForward = TRUE]
                         ELSE [w1 EXCEPT !.ch[c].isDodgingBackward = TRUE]
    IN runAfter(w2, Closure(IF forward THEN "dodgeForwardEnd" ELSE "dodgeBackwardEnd",
                            c, None, 0), Profile[c].dodgeDuration)

\* The behavioural flags determineState() reads, in the order it reads them.
FlagNames ==
  {"isSetToKill", "isRunningIntroAnimation", "isStunned", "isTakingDamage",
   "isGettingUpFromFalling", "isHitWhileBlocking", "isBlocking", "isAttacking",
   "isDodgingBackward", "isDodgingForward", "isJumping", "isCrouching",
   "isStartRunning", "isStopRunning"}

\* What else determineState() and determineAttackState() read: the body's
\* velocity and its previous x velocity, in hundredths, the overriding attack
\* state, the weapon slot and whether the profile has an unarmed attack
\* animation. The thresholds -2.5f and .01f in the same unit.
kFallingVelocityY == 0 - 250
kRunningVelocityX == 1
Physics ==
  [velocityY : {kFallingVelocityY - 1, kFallingVelocityY},
   velocityX : {0 - 2, kRunningVelocityX},
   previousVelocityX : {0, 2},
   overridingAttackState : {None, "ATTACKING_MIDAIR"},
   hasWeapon : BOOLEAN,
   hasUnarmedAttackAnimation : BOOLEAN]

Abs(x) == IF x < 0 THEN 0 - x ELSE x

\* f: the flags, x: the other inputs.
determineAttackState(f, x) ==
  IF x.overridingAttackState # None THEN x.overridingAttackState
  ELSE
    LET isUnarmed == ~x.hasWeapon /\ x.hasUnarmedAttackAnimation
    IN IF f["isCrouching"]
         THEN (IF isUnarmed THEN "ATTACKING_UNARMED_CROUCH" ELSE "ATTACKING_CROUCH")
       ELSE IF f["isJumping"]
         THEN (IF isUnarmed THEN "ATTACKING_UNARMED_MIDAIR" ELSE "ATTACKING_MIDAIR")
       ELSE (IF isUnarmed THEN "ATTACKING_UNARMED" ELSE "ATTACKING")

\* A determineState that looks at isBlocking before isTakingDamage.
determineStateBlockingFirst(f, x) ==
  IF f["isSetToKill"] THEN "KILLED"
  ELSE IF f["isRunningIntroAnimation"] THEN "INTRO"
  ELSE IF f["isStunned"] THEN "STUNNED"
  ELSE IF f["isBlocking"] THEN "BLOCKING"
  ELSE IF f["isTakingDamage"] THEN "TAKE_DAMAGE"
  ELSE IF f["isGettingUpFromFalling"] THEN "FALLING_GETUP"
  ELSE IF f["isHitWhileBlocking"] THEN "BLOCKING_HIT"
  ELSE IF f["isAttacking"] THEN determineAttackState(f, x)
  ELSE IF f["isDodgingBackward"] THEN "DODGING_BACKWARD"
  ELSE IF f["isDodgingForward"] THEN "DODGING_FORWARD"
  ELSE IF x.velocityY < kFallingVelocityY THEN "FALLING"
  ELSE IF f["isJumping"] THEN "JUMPING"
  ELSE IF f["isCrouching"] THEN "CROUCHING"
  ELSE IF f["isStartRunning"] THEN "RUNNING_START"
  ELSE IF f["isStopRunning"] THEN "RUNNING_STOP"
  ELSE IF Abs(x.velocityX) > kRunningVelocityX \/ Abs(x.previousVelocityX) > kRunningVelocityX
    THEN "RUNNING"
  ELSE "IDLE"

determineState(f, x) ==
  IF f["isSetToKill"] THEN "KILLED"
  ELSE IF f["isRunningIntroAnimation"] THEN "INTRO"
  ELSE IF f["isStunned"] THEN "STUNNED"
  ELSE IF f["isTakingDamage"] THEN "TAKE_DAMAGE"
  ELSE IF f["isGettingUpFromFalling"] THEN "FALLING_GETUP"
  ELSE IF f["isHitWhileBlocking"] THEN "BLOCKING_HIT"
  ELSE IF f["isBlocking"] THEN "BLOCKING"
  ELSE IF f["isAttacking"] THEN determineAttackState(f, x)
  ELSE IF f["isDodgingBackward"] THEN "DODGING_BACKWARD"
  ELSE IF f["isDodgingForward"] THEN "DODGING_FORWARD"
  ELSE IF x.velocityY < kFallingVelocityY THEN "FALLING"
  ELSE IF f["isJumping"] THEN "JUMPING"
  ELSE IF f["isCrouching"] THEN "CROUCHING"
  ELSE IF f["isStartRunning"] THEN "RUNNING_START"
  ELSE IF f["isStopRunning"] THEN "RUNNING_STOP"
  ELSE IF Abs(x.velocityX) > kRunningVelocityX \/ Abs(x.previousVelocityX) > kRunningVelocityX
    THEN "RUNNING"
  ELSE "IDLE"

\* The flags of character c, and its other inputs: the bodies of this model
\* neither run nor fall faster than the thresholds.
FlagsOf(w, c) ==
  [isSetToKill |-> w.ch[c].isSetToKill,
   isRunningIntroAnimation |-> w.ch[c].isRunningIntroAnimation,
   isStunned |-> w.ch[c].isStunned,
   isTakingDamage |-> w.ch[c].isTakingDamage,
   isGettingUpFromFalling |-> w.ch[c].isGettingUpFromFalling,
   isHitWhileBlocking |-> w.ch[c].isHitWhileBlocking,
   isBlocking |-> w.ch[c].isBlocking,
   isAttacking |-> w.ch[c].isAttacking,
   isDodgingBackward |-> w.ch[c].isDodgingBackward,
   isDodgingForward |-> w.ch[c].isDodgingForward,
   isJumping |-> w.ch[c].isJumping,
   isCrouching |-> w.ch[c].isCrouching,
   isStartRunning |-> FALSE,
   isStopRunning |-> FALSE]
PhysicsOf(w, c) ==
  [velocityY |-> 0, velocityX |-> 0, previousVelocityX |-> 0,
   overridingAttackState |-> w.ch[c].overridingAttackState,
   hasWeapon |-> w.ch[c].hasWeapon,
   hasUnarmedAttackAnimation |-> Profile[c].hasUnarmedAttackAnimation]

\* _previousState and _currentState as update() leaves them.
maybeOverrideCurrentStateWithAttackingMidairState(previousState, currentState) ==
  IF previousState = "ATTACKING_MIDAIR" /\ currentState = "ATTACKING"
    THEN "ATTACKING_MIDAIR" ELSE currentState

\* DynamicActor::destroyBody: the world destroys the body; on a body that is
\* already destroyed this is the second destruction.
destroyBody(w, c) ==
  IF w.ch[c].body = "destroyed" THEN [w EXCEPT !.ch[c].destroyedTwice = TRUE]
  ELSE [w EXCEPT !.ch[c].body = "destroyed"]

\* onKilled reads _body->GetPosition() and destroys the body.
onKilled(w, c) ==
  LET w1 == [w EXCEPT !.ch[c].isKilled = TRUE,
                      !.ch[c].readDestroyed = @ \/ (w.ch[c].body = "destroyed")]
  IN destroyBody(w1, c)

\* showOnMap, with the body its callers (the subclasses) define.
showOnMap(w, c) ==
  IF w.ch[c].isShownOnMap \/ w.ch[c].isKilled THEN [w EXCEPT !.ret = FALSE]
  ELSE [w EXCEPT !.ch[c].isShownOnMap = TRUE, !.ch[c].body = "alive", !.ret = TRUE]

\* StaticActor::removeFromMap: fails for an actor that is not on the map;
\* otherwise takes its sprite out of the scene, which ends the sprite's actions.
removeFromMapStatic(w, c) ==
  IF ~w.ch[c].isShownOnMap THEN [w EXCEPT !.ret = FALSE]
  ELSE [w EXCEPT !.ch[c].isShownOnMap = FALSE,
                 !.ch[c].killAnimation = FALSE,
                 !.ch[c].killAnimationLeft = 0,
                 !.ret = TRUE]

\* A removeFromMap that destroys the body of a killed character as well.
removeFromMapUnguarded(w, c) ==
  LET w1 == removeFromMapStatic(w, c)
  IN IF ~w1.ret THEN w1 ELSE [destroyBody(w1, c) EXCEPT !.ret = TRUE]

\* A removeFromMap that marks the character killed when it destroys the body.
removeFromMapKilling(w, c) ==
  LET w1 == removeFromMapStatic(w, c)
  IN IF ~w1.ret THEN w1
     ELSE IF ~w1.ch[c].isKilled
       THEN [destroyBody(w1, c) EXCEPT !.ch[c].isKilled = TRUE, !.ret = TRUE]
     ELSE w1

removeFromMap(w, c) ==
  LET w1 == removeFromMapStatic(w, c)
  IN IF ~w1.ret THEN w1
     ELSE IF ~w1.ch[c].isKilled THEN [destroyBody(w1, c) EXCEPT !.ret = TRUE]
     ELSE w1

\* jump(), for a character that cannot double jump.
\* jump() without the check of isMovementDisallowed().
jumpWhileCrouching(w, c) ==
  IF \/ Profile[c].jumpHeight = 0
     \/ (~Profile[c].canDoubleJump /\ w.ch[c].isJumping)
     \/ (Profile[c].canDoubleJump /\ w.ch[c].isDoubleJumping)
    THEN w
  ELSE
    LET w2 == runAfter([w EXCEPT !.ch[c].isJumpingDisallowed = TRUE],
                       Closure("jumpLockEnd", c, None, 0), kJumpLockTime)
    IN [w2 EXCEPT !.ch[c].isJumping = TRUE]

jump(w, c) ==
  IF \/ isMovementDisallowed(w, c)
     \/ Profile[c].jumpHeight = 0
     \/ (~Profile[c].canDoubleJump /\ w.ch[c].isJumping)
     \/ (Profile[c].canDoubleJump /\ w.ch[c].isDoubleJumping)
    THEN w
  ELSE
    LET w1 == IF w.ch[c].isJumping
                THEN [w EXCEPT !.ch[c].isDoubleJumping = TRUE,
                               !.ch[c].killAnimation = FALSE,
                               !.ch[c].killAnimationLeft = 0]
                ELSE w
        w2 == runAfter([w1 EXCEPT !.ch[c].isJumpingDisallowed = TRUE],
                       Closure("jumpLockEnd", c, None, 0), kJumpLockTime)
    IN [w2 EXCEPT !.ch[c].isJumping = TRUE]

\* doubleJump(): jump(), and jump() again 0.25 s later.
doubleJump(w, c) ==
  runAfter(jump(w, c), Closure("jumpAgain", c, None, 0), kDoubleJumpDelay)

\* crouch(), the flag; the fixtures are redefined by the action.
crouch(w, c) ==
  IF w.ch[c].isCrouching \/ w.ch[c].isJumping THEN w
  ELSE [w EXCEPT !.ch[c].isCrouching = TRUE]

getUpFromCrouching(w, c) ==
  IF ~w.ch[c].isCrouching THEN w
  ELSE [w EXCEPT !.ch[c].isCrouching = FALSE]

\* moveLeft() / moveRight(): the character turns, and takes an impulse while
\* its speed is within moveSpeed.
moveImpl(w, c, moveTowardsRight) ==
  IF isMovementDisallowed(w, c) THEN w
  ELSE LET w1 == [w EXCEPT !.ch[c].isFacingRight = moveTowardsRight]
           v == w.ch[c].velocityX
       IN IF Abs(v) <= Profile[c].moveSpeed
            THEN [w1 EXCEPT !.ch[c].velocityX =
                    IF moveTowardsRight THEN v + 1 ELSE v - 1]
            ELSE w1

getUpFromFalling(w, c) ==
  IF ~Profile[c].hasGetUpFromFallingAnimation THEN w
  ELSE runAfter([w EXCEPT !.ch[c].isGettingUpFromFalling = TRUE],
                Closure("getUpEnd", c, None, 0), Profile[c].fallingGetUpDuration)

\* onFallToGroundOrPlatform; hardFall: the body's y velocity is below -4.5.
onFallToGroundOrPlatform(w, c, hardFall) ==
  LET w1 == IF hardFall THEN getUpFromFalling(w, c) ELSE w
  IN IF w1.ch[c].isTakingDamage
       THEN getUpFromFalling([w1 EXCEPT !.ch[c].isTakingDamage = FALSE], c)
       ELSE w1

\* The contact listener, when the feet fixture touches the ground: the
\* character is no longer jumping, and onFallToGroundOrPlatform() is called.
land(w, c, hardFall) ==
  onFallToGroundOrPlatform([w EXCEPT !.ch[c].isJumping = FALSE,
                                     !.ch[c].isDoubleJumping = FALSE], c, hardFall)

runIntroAnimation(w, c) ==
  runAfter([w EXCEPT !.ch[c].isRunningIntroAnimation = TRUE],
           Closure("introEnd", c, None, 0), Profile[c].introDuration)

\* runAnimation(State::KILLED, [this]() { onKilled(); }): the sprite's action,
\* stepped every frame, calls onKilled when the animation has played.
stepAnimation(w, c, delta) ==
  IF ~w.ch[c].killAnimation THEN w
  ELSE IF w.ch[c].killAnimationLeft - delta > 0
    THEN [w EXCEPT !.ch[c].killAnimationLeft = @ - delta]
  ELSE onKilled([w EXCEPT !.ch[c].killAnimation = FALSE,
                          !.ch[c].killAnimationLeft = 0], c)

\* An update that resolves the state while a skill is in use as well.
updateWhileUsingSkill(w, c, delta) ==
  IF ~w.ch[c].isShownOnMap \/ w.ch[c].isKilled THEN w
  ELSE
    LET t1 == w.ch[c].statsRegenTimer + delta
        w1 == IF t1 >= kStatsRegenPeriod
                THEN regenStamina(
                       regenHealth([w EXCEPT !.ch[c].statsRegenTimer = 0], c,
                                   BaseRegenDeltaHealth[c]),
                       c, BaseRegenDeltaStamina[c])
                ELSE [w EXCEPT !.ch[c].statsRegenTimer = t1]
        w2 == IF w1.ch[c].inTrap
                THEN receiveDamage(w1, c, None, TrapDamage[c], kNumSecCantMove)
                ELSE w1
    IN IF FALSE THEN w2
       ELSE LET s == maybeOverrideCurrentStateWithAttackingMidairState(
                       w2.ch[c].currentState,
                       determineState(FlagsOf(w2, c), PhysicsOf(w2, c)))
            IN IF s = w2.ch[c].currentState
                 THEN [w2 EXCEPT !.ch[c].previousState = s]
                 ELSE [w2 EXCEPT !.ch[c].previousState = w2.ch[c].currentState,
                                 !.ch[c].currentState = s,
                                 !.ch[c].killAnimation = (s = "KILLED"),
                                 !.ch[c].killAnimationLeft =
                                    IF s = "KILLED" THEN Profile[c].killedDuration ELSE 0]

\* Character::update(delta)
update(w, c, delta) ==
  IF ~w.ch[c].isShownOnMap \/ w.ch[c].isKilled THEN w
  ELSE
    LET t1 == w.ch[c].statsRegenTimer + delta
        w1 == IF t1 >= kStatsRegenPeriod
                THEN regenStamina(
                       regenHealth([w EXCEPT !.ch[c].statsRegenTimer = 0], c,
                                   BaseRegenDeltaHealth[c]),
                       c, BaseRegenDeltaStamina[c])
                ELSE [w EXCEPT !.ch[c].statsRegenTimer = t1]
        w2 == IF w1.ch[c].inTrap
                THEN receiveDamage(w1, c, None, TrapDamage[c], kNumSecCantMove)
                ELSE w1
    IN IF w2.ch[c].isUsingSkill THEN w2
       ELSE LET s == maybeOverrideCurrentStateWithAttackingMidairState(
                       w2.ch[c].currentState,
                       determineState(FlagsOf(w2, c), PhysicsOf(w2, c)))
            IN IF s = w2.ch[c].currentState
                 THEN [w2 EXCEPT !.ch[c].previousState = s]
                 ELSE [w2 EXCEPT !.ch[c].previousState = w2.ch[c].currentState,
                                 !.ch[c].currentState = s,
                                 !.ch[c].killAnimation = (s = "KILLED"),
                                 !.ch[c].killAnimationLeft =
                                    IF s = "KILLED" THEN Profile[c].killedDuration ELSE 0]

\* Runs a fired closure.
\* A skill closure that leaves the current state as it is.
skillEndClosureKeepingState(w, c) ==
  [w EXCEPT !.ch[c].isUsingSkill = FALSE]

\* The closure of activateSkill.
skillEndClosure(w, c) ==
  [w EXCEPT !.ch[c].isUsingSkill = FALSE,
            !.ch[c].currentState = "FORCE_UPDATE"]

runClosure(w, cb) ==
  LET c == cb.cl.owner IN
  CASE cb.cl.kind = "damage" ->
         damageClosure(w, cb.id, c, cb.cl.target, cb.cl.damage)
    [] cb.cl.kind = "attackEnd" -> attackEndClosure(w, cb.id, c)
    [] cb.cl.kind = "takeDamageEnd" ->
         [w EXCEPT !.ch[c].isTakingDamage = FALSE,
                   !.ch[c].isTakingDamageFromTraps = FALSE]
    [] cb.cl.kind = "blockHitEnd" -> [w EXCEPT !.ch[c].isHitWhileBlocking = FALSE]
    [] cb.cl.kind = "invincibleEnd" -> [w EXCEPT !.ch[c].isInvincible = FALSE]
    [] cb.cl.kind = "dodgeForwardEnd" -> [w EXCEPT !.ch[c].isDodgingForward = FALSE]
    [] cb.cl.kind = "dodgeBackwardEnd" -> [w EXCEPT !.ch[c].isDodgingBackward = FALSE]
    [] cb.cl.kind = "jumpLockEnd" -> [w EXCEPT !.ch[c].isJumpingDisallowed = FALSE]
    [] cb.cl.kind = "getUpEnd" -> [w EXCEPT !.ch[c].isGettingUpFromFalling = FALSE]
    [] cb.cl.kind = "introEnd" -> [w EXCEPT !.ch[c].isRunningIntroAnimation = FALSE]
    [] cb.cl.kind = "gravityEnd" -> w
    [] cb.cl.kind = "jumpAgain" -> jump(w, c)
    [] cb.cl.kind = "forwardSlashEnd" ->
         [w EXCEPT !.ch[c].isInvincible = FALSE,
                   !.ch[c].activeSkillInstances =
                      @ \ {Instance("forwardSlash", cb.cl.damage)}]
    [] cb.cl.kind = "skillEnd" -> skillEndClosure(w, c)

\* The scheduler fires one due closure: it leaves the pending set, then runs.
fire(w, cb) ==
  LET w1 == [w EXCEPT !.pending = @ \ {cb},
                      !.hist[cb.id].status = "ran",
                      !.hist[cb.id].runs = @ + 1,
                      !.hist[cb.id].early = (w.now < cb.at + cb.delay)]
  IN runClosure(w1, cb)

(***************************************************************************)
(* Inventory and Equipment Ledger.                                         *)
(***************************************************************************)
\* The ledger the operations below transform; `ret' carries a return value.
Ledger == [items |-> items, amount |-> amount, inventory |-> inventory,
           equipmentSlots |-> equipmentSlots, ret |-> TRUE]

getExistingItemObj(l, item) ==
  IF item = None THEN None ELSE l.items[DefOf[item]]

\* An addItem that stores every object it is given as a new entry.
addItemKeepingDuplicate(l, item, n) ==
  IF item = None THEN [l EXCEPT !.ret = FALSE]
  ELSE IF n = 0 THEN [l EXCEPT !.ret = FALSE]
  ELSE [l EXCEPT !.amount[item] = n, !.items[DefOf[item]] = item,
                 !.inventory[ItemTypeOf[DefOf[item]]] = @ \cup {item},
                 !.ret = TRUE]

addItem(l, item, n) ==
  IF item = None THEN [l EXCEPT !.ret = FALSE]
  ELSE IF n = 0 THEN [l EXCEPT !.ret = FALSE]
  ELSE
    LET found == getExistingItemObj(l, item)
        l1 == IF found # None
                THEN [l EXCEPT !.amount[found] = @ + n]
                ELSE [l EXCEPT !.amount[item] = n, !.items[DefOf[item]] = item]
        existingItemObj == IF found # None THEN found ELSE item
    IN [l1 EXCEPT !.inventory[ItemTypeOf[DefOf[existingItemObj]]] = @ \cup {existingItemObj},
                  !.ret = TRUE]

\* A removeItem that keeps the ledger entry at amount 0.
removeItemKeepingEntry(l, item, n) ==
  IF item = None THEN [l EXCEPT !.ret = FALSE]
  ELSE IF n = 0 THEN [l EXCEPT !.ret = FALSE]
  ELSE IF getExistingItemObj(l, item) = None THEN [l EXCEPT !.ret = FALSE]
  ELSE
    LET existingItemObj == getExistingItemObj(l, item)
        finalAmount == l.amount[existingItemObj] - n
        l1 == [l EXCEPT !.amount[existingItemObj] = finalAmount]
    IN IF finalAmount # 0 THEN [l1 EXCEPT !.ret = TRUE]
       ELSE [l1 EXCEPT !.inventory[ItemTypeOf[DefOf[item]]] = @ \ {existingItemObj},
                       !.ret = TRUE]

\* A removeItem that leaves the reference in the inventory bucket at amount 0.
removeItemKeepingBucket(l, item, n) ==
  IF item = None THEN [l EXCEPT !.ret = FALSE]
  ELSE IF n = 0 THEN [l EXCEPT !.ret = FALSE]
  ELSE IF getExistingItemObj(l, item) = None THEN [l EXCEPT !.ret = FALSE]
  ELSE
    LET existingItemObj == getExistingItemObj(l, item)
        finalAmount == l.amount[existingItemObj] - n
        type == EquipmentTypeOf[DefOf[existingItemObj]]
        l1 == [l EXCEPT !.amount[existingItemObj] = finalAmount]
    IN IF finalAmount # 0 THEN [l1 EXCEPT !.ret = TRUE]
       ELSE IF type = None \/ l1.equipmentSlots[type] # existingItemObj
              THEN [l1 EXCEPT !.items[DefOf[item]] = None, !.ret = TRUE]
              ELSE [l1 EXCEPT !.ret = TRUE]

\* removeItem; its callers keep assert(finalAmount >= 0).
removeItem(l, item, n) ==
  IF item = None THEN [l EXCEPT !.ret = FALSE]
  ELSE IF n = 0 THEN [l EXCEPT !.ret = FALSE]
  ELSE IF getExistingItemObj(l, item) = None THEN [l EXCEPT !.ret = FALSE]
  ELSE
    LET existingItemObj == getExistingItemObj(l, item)
        finalAmount == l.amount[existingItemObj] - n
        type == EquipmentTypeOf[DefOf[existingItemObj]]
        l1 == [l EXCEPT !.amount[existingItemObj] = finalAmount]
    IN IF finalAmount # 0 THEN [l1 EXCEPT !.ret = TRUE]
       ELSE LET l2 == [l1 EXCEPT !.inventory[ItemTypeOf[DefOf[item]]] = @ \ {existingItemObj}]
            IN IF type = None \/ l2.equipmentSlots[type] # existingItemObj
                 THEN [l2 EXCEPT !.items[DefOf[item]] = None, !.ret = TRUE]
                 ELSE [l2 EXCEPT !.ret = TRUE]

\* An unequip that clears the slot and does not return the item.
unequipDroppingItem(l, equipmentType) ==
  IF l.equipmentSlots[equipmentType] = None THEN l
  ELSE [l EXCEPT !.equipmentSlots[equipmentType] = None]

unequip(l, equipmentType) ==
  IF l.equipmentSlots[equipmentType] = None THEN l
  ELSE
    LET e == l.equipmentSlots[equipmentType]
        l1 == [l EXCEPT !.equipmentSlots[equipmentType] = None]
    IN IF l1.items[DefOf[e]] = None THEN l1
       ELSE addItem(l1, l1.items[DefOf[e]], 1)

\* An equip that overwrites the slot without unequipping its occupant.
equipWithoutUnequip(l, equipment) ==
  LET type == EquipmentTypeOf[DefOf[equipment]]
      l2 == [l EXCEPT !.equipmentSlots[type] = equipment]
  IN removeItem(l2, equipment, 1)

equip(l, equipment) ==
  LET type == EquipmentTypeOf[DefOf[equipment]]
      l1 == IF l.equipmentSlots[type] # None THEN unequip(l, type) ELSE l
      l2 == [l1 EXCEPT !.equipmentSlots[type] = equipment]
  IN removeItem(l2, equipment, 1)

\* useItem: the consumable's effect on the character's profile (of the pools
\* and attributes it changes, the model holds health), then removeItem.
useItemEffect(w, c, consumable) ==
  LET restored == w.ch[c].health + ConsumableProfile[DefOf[consumable]].restoreHealth
  IN [w EXCEPT !.ch[c].health =
        IF restored > Profile[c].fullHealth THEN Profile[c].fullHealth ELSE restored]

useItem(l, consumable) == removeItem(l, consumable, 1)

(***************************************************************************)
(* Physics body and fixtures.                                              *)
(***************************************************************************)
\* enum FixtureType { BODY, FEET, WEAPON }; a null fixture pointer.
FixtureTypes == {"BODY", "FEET", "WEAPON"}
NoFixture == 0

\* A character whose constructor has run: no body, every slot null.
NoFixtures ==
  [slot |-> [BODY |-> NoFixture, FEET |-> NoFixture, WEAPON |-> NoFixture],
   onBody |-> {}, nextFixture |-> 1, destroyedNull |-> FALSE]

\* fixture->GetFilterData() and the shape the fixture was built with.
FixtureOf(fx, id) == CHOOSE f \in fx.onBody : f.id = id

\* b2Body::DestroyFixture: the fixture leaves the body's fixture list; the
\* call with a null pointer is recorded.
DestroyFixture(fx, id) ==
  IF id = NoFixture THEN [fx EXCEPT !.destroyedNull = TRUE]
  ELSE [fx EXCEPT !.onBody = {f \in @ : f.id # id}]

\* B2BodyBuilder{_body}.new...Fixture(...).buildFixture(), stored in a slot.
buildFixture(fx, type, categoryBits, maskBits, crouching) ==
  [fx EXCEPT !.onBody = @ \cup {[id |-> fx.nextFixture, type |-> type,
                                 categoryBits |-> categoryBits,
                                 maskBits |-> maskBits, crouching |-> crouching]},
             !.slot[type] = fx.nextFixture,
             !.nextFixture = @ + 1]

redefineBodyFixture(fx, bodyCategoryBits, bodyMaskBits, isCrouching) ==
  LET held == fx.slot["BODY"] # NoFixture
      cat == IF held THEN FixtureOf(fx, fx.slot["BODY"]).categoryBits
                     ELSE bodyCategoryBits
      mask == IF held THEN FixtureOf(fx, fx.slot["BODY"]).maskBits ELSE bodyMaskBits
      fx1 == IF held
               THEN [DestroyFixture(fx, fx.slot["BODY"]) EXCEPT !.slot["BODY"] = NoFixture]
               ELSE fx
  IN buildFixture(fx1, "BODY", cat, mask, isCrouching)

\* redefineFeetFixture: with a fixture in the FEET slot it destroys
\* _fixtures[FixtureType::BODY] and nulls that slot (lines 245-246).
redefineFeetFixture(fx, feetMaskBits) ==
  LET held == fx.slot["FEET"] # NoFixture
      mask == IF held THEN FixtureOf(fx, fx.slot["FEET"]).maskBits ELSE feetMaskBits
      fx1 == IF held
               THEN [DestroyFixture(fx, fx.slot["BODY"]) EXCEPT !.slot["BODY"] = NoFixture]
               ELSE fx
  IN buildFixture(fx1, "FEET", "kFeet", mask, FALSE)

redefineWeaponFixture(fx, weaponMaskBits, isCrouching) ==
  LET held == fx.slot["WEAPON"] # NoFixture
      mask == IF held THEN FixtureOf(fx, fx.slot["WEAPON"]).maskBits
                      ELSE weaponMaskBits
      fx1 == IF held
               THEN [DestroyFixture(fx, fx.slot["WEAPON"])
                       EXCEPT !.slot["WEAPON"] = NoFixture]
               ELSE fx
  IN buildFixture(fx1, "WEAPON", "kMeleeWeapon", mask, isCrouching)

\* defineBody: a new body, then the three fixtures.
defineBody(fx, bodyCategoryBits, bodyMaskBits, feetMaskBits, weaponMaskBits) ==
  redefineWeaponFixture(
    redefineFeetFixture(
      redefineBodyFixture([fx EXCEPT !.onBody = {}], bodyCategoryBits, bodyMaskBits,
                          FALSE),
      feetMaskBits),
    weaponMaskBits, FALSE)

(***************************************************************************)
(* The state machine of the model.                                         *)
(***************************************************************************)
InitChar(c, timer, blocking, trap, range) ==
  [health |-> Profile[c].fullHealth, stamina |-> Profile[c].stamina,
   nextFork |-> 1, weaponBonus |-> 0,
   isSetToKill |-> FALSE, isKilled |-> FALSE, isShownOnMap |-> TRUE,
   isInvincible |-> FALSE, isBlocking |-> blocking, isHitWhileBlocking |-> FALSE,
   isTakingDamage |-> FALSE, isTakingDamageFromTraps |-> FALSE,
   isAttacking |-> FALSE, overridingAttackState |-> None,
   isUsingSkill |-> FALSE, currentlyUsedSkill |-> None,
   activeSkillInstances |-> {}, isGettingUpFromFalling |-> FALSE, isStunned |-> FALSE,
   isRunningIntroAnimation |-> FALSE, isCrouching |-> FALSE,
   isJumping |-> FALSE, isJumpingDisallowed |-> FALSE,
   hasWeapon |-> FALSE, airAttack |-> FALSE,
   body |-> "alive", destroyedTwice |-> FALSE, readDestroyed |-> FALSE,
   isDoubleJumping |-> FALSE, isDodgingBackward |-> FALSE, isDodgingForward |-> FALSE,
   cancelAttackCallbacks |-> {}, inflictDamageCallbacks |-> {},
   inRangeTargets |-> range, lockedOnTarget |-> None, isAlerted |-> FALSE,
   statsRegenTimer |-> timer, inTrap |-> trap, knockBacks |-> 0,
   currentState |-> IF blocking THEN "BLOCKING" ELSE "IDLE",
   previousState |-> IF blocking THEN "BLOCKING" ELSE "IDLE",
   killAnimation |-> FALSE, killAnimationLeft |-> 0,
   isFacingRight |-> TRUE, velocityX |-> 0]

\* The characters stand on the map at full health, 0.2 s before the end of a
\* regeneration period; "e" may have raised its guard, "p" may stand in a trap
\* and "a" has "e" in the range of its weapon.
\* A character that holds nothing; a new Item object has _amount 1.
InitLedger ==
  /\ items = [sword |-> None, axe |-> None, potion |-> None]
  /\ amount = [sword1 |-> 1, sword2 |-> 1, axe1 |-> 1, potion1 |-> 1]
  /\ inventory = [EQUIPMENT |-> {}, CONSUMABLE |-> {}]
  /\ equipmentSlots = [WEAPON |-> None]
  /\ trip = [phase |-> "none"]

\* The body of "p" as showOnMap's defineBody leaves it.
InitFixtures ==
  fixtures = defineBody(NoFixtures, "kPlayer", "bodyMask", "feetMask", "weaponMask")

\* No portal has been interacted with.
InitPortal ==
  portal = [shade |-> "clear", helper |-> "none", npcsAllowedToAct |-> TRUE,
            loadQueued |-> FALSE, loaded |-> FALSE, pendingAtLoad |-> 0]

\* No thread is inside an operation on the callback-id sets.
InitLocks ==
  locks = [prog |-> [main |-> <<>>, timer |-> <<>>],
           holder |-> [cancelAttackCallbacks |-> None, inflictDamageCallbacks |-> None],
           mutating |-> [main |-> None, timer |-> None],
           racing |-> [main |-> FALSE, timer |-> FALSE],
           sets |-> [cancelAttackCallbacks |-> {}, inflictDamageCallbacks |-> {}],
           scheduled |-> {}, attacks |-> 0, unguarded |-> FALSE]

\* CommandHistory(): CircularBuffer<string>(DEFAULT_HISTORY_SIZE), whose array
\* holds default-constructed strings, and _current(_tail).
InitCmdHistory ==
  cmdHistory = [data |-> [i \in 0..(HistoryCapacity - 1) |-> ""],
                head |-> 0, tail |-> 0, size |-> 0, current |-> 0]

InitSide == InitFixtures /\ InitPortal /\ InitLocks /\ InitCmdHistory

\* determineState() has not been examined.
InitFlags ==
  /\ flags = [n \in FlagNames |-> FALSE]
  /\ resolved = None

\* The characters stand on the map, and nothing is scheduled.
InitQuiet ==
  /\ ch = [p |-> InitChar("p", 0, FALSE, FALSE, {}),
           a |-> InitChar("a", 0, FALSE, FALSE, {}),
           e |-> InitChar("e", 0, FALSE, FALSE, {})]
  /\ pending = {}
  /\ nextId = 1
  /\ now = 0
  /\ hist = <<>>
  /\ last = NoCall
  /\ nEvents = 0
  /\ InitLedger
  /\ InitSide
  /\ InitFlags

InitCombat ==
  /\ \E eBlocks \in BOOLEAN, pTrapped \in BOOLEAN :
       ch = [p |-> InitChar("p", kStatsRegenPeriod - 2, FALSE, pTrapped, {}),
             a |-> InitChar("a", kStatsRegenPeriod - 2, FALSE, FALSE, {"e"}),
             e |-> InitChar("e", kStatsRegenPeriod - 2, eBlocks, FALSE, {})]
  /\ pending = {}
  /\ nextId = 1
  /\ now = 0
  /\ hist = <<>>
  /\ last = NoCall
  /\ nEvents = 0
  /\ InitLedger
  /\ InitSide
  /\ InitFlags

Init == InitCombat

Commit(w) ==
  /\ ch' = w.ch
  /\ pending' = w.pending
  /\ nextId' = w.nextId
  /\ now' = w.now
  /\ hist' = w.hist
  /\ last' = w.last
  /\ UNCHANGED <<ledgerVars, flagVars, sideVars>>

Hostile(c, t) == c # t /\ t \notin getAllies(c) /\ c \notin getAllies(t)

OnMap(c) == ch[c].isShownOnMap /\ ~ch[c].isKilled

frame(w, c, delta) == update(stepAnimation(w, c, delta), c, delta)

\* One frame: the clock advances by delta, the sprite actions are stepped and
\* update(delta) runs for every character.
TickUntil(deltas, horizon) ==
  /\ Due(World) = {}
  /\ \E delta \in deltas :
       /\ now + delta <= horizon
       /\ Commit(frame(frame(frame([World EXCEPT !.now = @ + delta],
                                   "p", delta), "a", delta), "e", delta))
  /\ UNCHANGED nEvents

TickBy(deltas) == TickUntil(deltas, MaxTime)

Tick == TickBy(Deltas)

\* The scheduler's update pass runs the due closures in the order of their ids.
Fire ==
  /\ \E cb \in Due(World) :
       /\ \A other \in Due(World) : cb.id <= other.id
       /\ Commit(fire(World, cb))
  /\ UNCHANGED nEvents

\* A call from the input handler, the bot or the contact listener.
Event ==
  /\ Due(World) = {}
  /\ nEvents < MaxEvents
  /\ nEvents' = nEvents + 1

AttackBy(cs, states, ns, ivs, js) ==
  /\ Event
  /\ \E c \in cs, s \in states, n \in ns, iv \in ivs :
       /\ OnMap(c)
       /\ \E jit \in [ch[c].inRangeTargets -> js] :
            /\ attack(World, c, s, n, iv, jit) # World
            /\ Commit(attack(World, c, s, n, iv, jit))

BodyContactOf(cs) ==
  /\ Event
  /\ \E c \in cs, enemy \in Fighters :
       /\ Hostile(c, enemy) /\ OnMap(c) /\ OnMap(enemy)
       /\ Commit(onBodyContactWithEnemyBody(World, c, enemy))

\* The weapon fixture of c begins or ends contact with the body of t.
EnterRangeOf(cs) ==
  /\ Event
  /\ \E c \in cs, t \in Fighters :
       /\ Hostile(c, t) /\ OnMap(c) /\ OnMap(t)
       /\ t \notin ch[c].inRangeTargets
       /\ Commit([World EXCEPT !.ch[c].inRangeTargets = @ \cup {t}])

LeaveRangeOf(cs) ==
  /\ Event
  /\ \E c \in cs : \E t \in ch[c].inRangeTargets :
       Commit([World EXCEPT !.ch[c].inRangeTargets = @ \ {t}])

ActivateSkillOf(cs) ==
  /\ Event
  /\ \E c \in cs, skill \in Skills :
       /\ OnMap(c)
       /\ activateSkill(World, c, skill).ret
       /\ Commit(activateSkill(World, c, skill))

\* The weapon fixture of c touches the body of enemy.
MeleeWeaponContactOf(cs, js) ==
  /\ Event
  /\ \E c \in cs, enemy \in Fighters, jitter \in js :
       /\ Hostile(c, enemy) /\ OnMap(c) /\ OnMap(enemy)
       /\ onMeleeWeaponContactWithEnemyBody(World, c, enemy, jitter) # World
       /\ Commit(onMeleeWeaponContactWithEnemyBody(World, c, enemy, jitter))

DodgeOf(cs) ==
  /\ Event
  /\ \E c \in cs, forward \in BOOLEAN :
       /\ OnMap(c) /\ ~ch[c].isSetToKill
       /\ dodge(World, c, forward) # World
       /\ Commit(dodge(World, c, forward))

(***************************************************************************)
(* Spec: damage, death and lock-on. Single-hit attacks, body contacts, a   *)
(* trap and dodges.                                                        *)
(***************************************************************************)
FixedTick == TickBy(FixedDeltas)
Attack == AttackBy(Fighters, {"ATTACKING", "IDLE"}, {1}, {0}, Jitters)
BodyContact == BodyContactOf(Fighters)
EnterRange == EnterRangeOf(Fighters)
Dodge == DodgeOf({"e"})

Next ==
  \/ FixedTick
  \/ Fire
  \/ Attack
  \/ BodyContact
  \/ EnterRange
  \/ Dodge

Spec == Init /\ [][Next]_vars

\* C1: the health of every character stays within [0, fullHealth] whatever
\* receiveDamage calls (attacks, body contacts, traps) and regeneration ticks
\* have happened.
C1_HealthWithinBounds ==
  \A c \in Chars : 0 <= ch[c].health /\ ch[c].health <= Profile[c].fullHealth

\* The damages the calls examined by C2 pass.
DamageInputs == {1, kBodyContactDamage}

\* The state receiveDamage is called in a second time: the caller has dropped
\* the first call's return value.
Again(w) == [w EXCEPT !.ret = TRUE, !.last = NoCall]

C3_LethalIffDamageCoversHealth ==
  last.kind = "applied" =>
    IF last.dmg >= last.pre
      THEN ch[last.tgt].health = 0 /\ ch[last.tgt].isSetToKill
      ELSE ch[last.tgt].health = last.pre - last.dmg /\ ~ch[last.tgt].isSetToKill

\* C3 witness: a hit whose damage equalled the health the target had left.
C3_ExactlyLethalHit ==
  /\ last.kind = "applied"
  /\ last.dmg = last.pre
  /\ ch[last.tgt].isSetToKill

\* C4: once a hit of an attacker that took a character's health to 0 has been
\* applied and inflictDamage has returned, neither the attacker nor any of its
\* allies has the dying character as locked-on target or in-range target.
C4_DyingCharacterForgotten ==
  (last.kind = "applied" /\ last.src # None /\ last.dmg >= last.pre) =>
    \A x \in {last.src} \cup getAllies(last.src) :
      /\ ch[x].lockedOnTarget # last.tgt
      /\ last.tgt \notin ch[x].inRangeTargets

(***************************************************************************)
(* SpecHits: multi-hit sequences. "p" attacks "e" or uses its melee skill  *)
(* on it, "e" leaves and re-enters the range of "p", and "p" runs into "e" *)
(* and takes damage.                                                       *)
(***************************************************************************)
Attacker == "p"
HitTarget == "e"

InitHits ==
  /\ ch = [p |-> InitChar("p", kStatsRegenPeriod - 2, FALSE, FALSE, {"e"}),
           a |-> InitChar("a", kStatsRegenPeriod - 2, FALSE, FALSE, {}),
           e |-> InitChar("e", kStatsRegenPeriod - 2, FALSE, FALSE, {})]
  /\ pending = {}
  /\ nextId = 1
  /\ now = 0
  /\ hist = <<>>
  /\ last = NoCall
  /\ nEvents = 0
  /\ InitLedger
  /\ InitSide
  /\ InitFlags

MultiHitAttack == AttackBy({Attacker}, {"ATTACKING_MIDAIR"}, HitCounts, HitIntervals, {0})
LeaveRange == LeaveRangeOf({Attacker})
ReenterRange == EnterRangeOf({Attacker})
BodyContactOfAttacker == BodyContactOf({Attacker})
ActivateSkill == ActivateSkillOf({Attacker})
MeleeWeaponContact == MeleeWeaponContactOf({Attacker}, {0})

NextHits ==
  \/ Tick
  \/ Fire
  \/ MultiHitAttack
  \/ LeaveRange
  \/ ReenterRange
  \/ BodyContactOfAttacker
  \/ ActivateSkill
  \/ MeleeWeaponContact

SpecHits == InitHits /\ [][NextHits]_vars

\* The ids of the damage closures scheduled so far, and the ids of the
\* sequence a damage closure belongs to.
DamageIds == {id \in DOMAIN hist : hist[id].kind = "damage"}
SeqIds(id) == {hist[id].place.seq + j : j \in 0..(hist[id].place.n - 1)}

\* Nothing intervened in the sequence of id: none of its closures was
\* cancelled or skipped.
Undisturbed(id) ==
  \A k \in SeqIds(id) : hist[k].status \in {"pending", "ran"} /\ ~hist[k].stale

\* C5: inflictDamage(target, damage, hitCount, hitInterval) schedules exactly
\* hitCount damage closures, the i-th with the delay attackDelay +
\* hitInterval * i; no closure applies its hit before that delay has elapsed,
\* the closures of a sequence apply their hits in index order, a sequence in
\* which nothing intervened has applied each hit whose due time has passed,
\* and the target has been hit once per applied closure.
C5_HitsScheduledAndAppliedInOrder ==
  /\ \A id \in DamageIds :
       LET h == hist[id]
           pl == h.place
       IN /\ pl.n >= 1 /\ pl.idx \in 0..(pl.n - 1) /\ id = pl.seq + pl.idx
          /\ Cardinality({k \in DamageIds : hist[k].place.seq = pl.seq}) = pl.n
          /\ \A k \in SeqIds(id) :
               /\ k \in DamageIds
               /\ hist[k].place = [pl EXCEPT !.idx = k - pl.seq]
               /\ hist[k].owner = h.owner /\ hist[k].target = h.target
               /\ hist[k].at = h.at
          /\ h.delay = Profile[h.owner].attackDelay + pl.interval * pl.idx
          /\ h.runs <= 1
          /\ (h.runs = 1 => ~h.early /\ now >= h.at + h.delay)
          /\ (h.status = "ran" =>
                \A k \in SeqIds(id) : k < id => hist[k].status # "pending")
          /\ (Undisturbed(id) /\ Due(World) = {} /\ now >= h.at + h.delay
                => h.status = "ran")
  /\ ch[HitTarget].knockBacks =
       Cardinality({id \in DamageIds : hist[id].target = HitTarget
                                        /\ hist[id].status = "ran"})

\* C5 witness: a sequence of two or more hits, a tick apart, in which nothing
\* intervened has applied all its hits.
C5_WholeSequenceApplied ==
  \E id \in DamageIds :
    /\ hist[id].place.n >= 2 /\ hist[id].place.interval >= 1
    /\ Undisturbed(id)
    /\ \A k \in SeqIds(id) : hist[k].status = "ran"

\* The condition under which a damage closure returns without a hit.
SkipsHit(cb) ==
  \/ ch[cb.cl.owner].isTakingDamage
  \/ cb.cl.target \notin ch[cb.cl.owner].inRangeTargets

\* C6: a damage closure that fires while its attacker is taking damage or
\* while its target is outside the attacker's in-range set changes no
\* character (health, lock-on, knockback) and no other scheduled closure: the
\* other hits of the sequence stay scheduled as they were.
C6_SkippedHitChangesNothingElse ==
  \A cb \in pending :
    (cb.cl.kind = "damage" /\ SkipsHit(cb)) =>
      LET w == fire(World, cb)
      IN /\ w.ch = ch
         /\ w.pending = pending \ {cb}
         /\ w.hist[cb.id].status = "skipped"
         /\ \A k \in DOMAIN hist : k # cb.id => w.hist[k] = hist[k]

\* C6 witness: the first hit of a sequence was skipped and a later hit of the
\* same sequence was applied.
C6_LaterHitAppliedAfterSkip ==
  \E id \in DamageIds :
    /\ hist[id].status = "skipped"
    /\ \E k \in SeqIds(id) : k > id /\ hist[k].status = "ran"

\* C7: a damage closure that had not fired when its owner's cancelAttack was
\* called never fires afterwards, however far the clock advances; and
\* cancelAttack takes back no hit: it changes no health, no knockback and no
\* closure that has already run.
C7_CancelledHitsNeverApply ==
  /\ \A id \in DamageIds :
       hist[id].stale =>
         /\ hist[id].runs = 0
         /\ hist[id].status = "cancelled"
         /\ \A cb \in pending : cb.id # id
  /\ \A c \in Chars :
       LET w == cancelAttack(World, c)
       IN /\ \A t \in Chars :
               /\ w.ch[t].health = ch[t].health
               /\ w.ch[t].knockBacks = ch[t].knockBacks
               /\ w.ch[t].isSetToKill = ch[t].isSetToKill
          /\ \A id \in DOMAIN hist :
               /\ w.hist[id].runs = hist[id].runs
               /\ (hist[id].status \in {"ran", "skipped"}
                     => w.hist[id].status = hist[id].status)

\* C7 witness: the first hit of a sequence was applied, cancelAttack came
\* before a later hit of the sequence, and the clock is past that hit's due
\* time.
C7_CancelledMidSequence ==
  \E id \in DamageIds :
    /\ hist[id].stale /\ hist[id].place.idx >= 1
    /\ hist[hist[id].place.seq].status = "ran"
    /\ now > hist[id].at + hist[id].delay
    /\ Due(World) = {}

\* C8: every scheduled closure has run at most once, and a closure that has
\* run did so no earlier than `delay' after it was scheduled; a closure is in
\* the scheduler's pending set exactly as long as it has neither run nor been
\* cancelled.
C8_ClosuresRunOnceAndNotEarly ==
  \A id \in DOMAIN hist :
    /\ hist[id].runs <= 1
    /\ ~hist[id].early
    /\ (hist[id].runs = 1 => now >= hist[id].at + hist[id].delay)
    /\ Cardinality({cb \in pending : cb.id = id})
         = IF hist[id].status = "pending" THEN 1 ELSE 0
    /\ (hist[id].status = "pending" => hist[id].runs = 0)

\* C8 witness: the closure attack() scheduled to end the attack has run, and
\* one of the hits scheduled with it has run before it.
C8_AttackEndClosureRan ==
  \E id \in DOMAIN hist :
    /\ hist[id].kind = "attackEnd" /\ hist[id].runs = 1
    /\ \E k \in DamageIds : hist[k].owner = hist[id].owner /\ hist[k].runs = 1

\* C9: a closure cancelled before it fired never runs; cancelling a pending
\* id removes that closure and nothing else; and cancelling an id that has
\* already fired or was already cancelled changes neither the pending set,
\* nor any character, nor the fate of any callback.
C9_CancelIsFinalAndLateCancelIsNoOp ==
  /\ \A id \in DOMAIN hist :
       hist[id].status = "cancelled" =>
         hist[id].runs = 0 /\ \A cb \in pending : cb.id # id
  /\ \A cb \in pending :
       LET w == cancel(World, cb.id)
       IN w.pending = pending \ {cb} /\ w.ch = ch
  /\ \A id \in DOMAIN hist :
       hist[id].status # "pending" =>
         LET w == cancel(World, id)
         IN /\ w.pending = pending /\ w.ch = ch /\ w.nextId = nextId
            /\ \A k \in DOMAIN hist :
                 /\ w.hist[k].status = hist[k].status
                 /\ w.hist[k].runs = hist[k].runs

\* C9 witness: cancelAttack has cancelled a pending closure, and has called
\* cancel with the id of a closure that had fired before.
C9_CancelledBeforeAndAfterFiring ==
  /\ \E id \in DOMAIN hist : hist[id].status = "cancelled"
  /\ \E id \in DOMAIN hist : hist[id].lateCancel /\ hist[id].runs = 1

(***************************************************************************)
(* SpecLedger: the inventory and equipment ledger of one character. Items  *)
(* are added and removed with new or held Item objects, and equipment is   *)
(* equipped from the inventory and unequipped, and consumables are used.   *)
(***************************************************************************)
\* What addItem/removeItem/equip/unequip maintain: the ledger with the amount
\* of each of its entries, the inventory buckets and the equipment slots.
AmountOf(l, d) == IF l.items[d] = None THEN 0 ELSE l.amount[l.items[d]]
View(l) ==
  [items |-> l.items, inventory |-> l.inventory,
   equipmentSlots |-> l.equipmentSlots,
   amounts |-> [sword |-> AmountOf(l, "sword"), axe |-> AmountOf(l, "axe"),
                potion |-> AmountOf(l, "potion")]]

CommitLedger(l) ==
  /\ items' = l.items
  /\ amount' = l.amount
  /\ inventory' = l.inventory
  /\ equipmentSlots' = l.equipmentSlots
  /\ UNCHANGED <<combatVars, flagVars, sideVars>>

AddItem ==
  \E item \in Objs, n \in Amounts :
    /\ AmountOf(Ledger, DefOf[item]) + n <= MaxAmount
    /\ CommitLedger(addItem(Ledger, item, n))
    /\ trip' = IF trip.phase = "added" /\ DefOf[trip.item] = DefOf[item]
                 THEN [phase |-> "addedTwice", item |-> trip.item, n |-> trip.n,
                       item2 |-> item, n2 |-> n, before |-> trip.before]
                 ELSE [phase |-> "added", item |-> item, n |-> n,
                       before |-> View(Ledger)]

RemoveItem ==
  \E item \in Objs, n \in Amounts :
    /\ getExistingItemObj(Ledger, item) # None
    /\ amount[getExistingItemObj(Ledger, item)] - n >= 0
    /\ CommitLedger(removeItem(Ledger, item, n))
    /\ trip' = IF trip.phase = "added" /\ trip.item = item /\ trip.n = n
                 THEN [trip EXCEPT !.phase = "removed"]
                 ELSE [phase |-> "none"]

\* The pause menu equips an equipment of the inventory.
Equip ==
  \E equipment \in inventory["EQUIPMENT"] :
    /\ CommitLedger(equip(Ledger, equipment))
    /\ trip' = [phase |-> "equipped", item |-> equipment,
                incumbent |-> equipmentSlots[EquipmentTypeOf[DefOf[equipment]]],
                before |-> View(Ledger)]

Unequip ==
  \E type \in DOMAIN equipmentSlots :
    /\ equipmentSlots[type] # None
    /\ CommitLedger(unequip(Ledger, type))
    /\ trip' = IF trip.phase = "equipped" /\ EquipmentTypeOf[DefOf[trip.item]] = type
                 THEN [trip EXCEPT !.phase = "unequipped"]
                 ELSE [phase |-> "none"]

\* The pause menu uses a consumable of the inventory.
UseItem ==
  \E consumable \in inventory["CONSUMABLE"] :
    LET l == useItem(Ledger, consumable)
    IN /\ ch' = useItemEffect(World, Holder, consumable).ch
       /\ items' = l.items
       /\ amount' = l.amount
       /\ inventory' = l.inventory
       /\ equipmentSlots' = l.equipmentSlots
       /\ trip' = [phase |-> "used", item |-> consumable]
       /\ UNCHANGED <<pending, nextId, now, hist, last, nEvents, flags, resolved, sideVars>>

NextLedger ==
  \/ AddItem
  \/ RemoveItem
  \/ Equip
  \/ Unequip
  \/ UseItem

SpecLedger == InitQuiet /\ [][NextLedger]_vars

\* C10: in every ledger state, for every Item object i and amount n > 0,
\* addItem(i, n) followed by removeItem(i, n) succeeds and leaves the ledger
\* with its amounts, the inventory buckets and the equipment slots as they
\* were before the two calls; and every such pair of calls that was made did.
C10_AddThenRemoveRestoresLedger ==
  /\ \A item \in Objs : \A n \in Amounts :
       LET l1 == addItem(Ledger, item, n)
           l2 == removeItem(l1, item, n)
       IN l1.ret /\ l2.ret /\ View(l2) = View(Ledger)
  /\ (trip.phase = "removed" => View(Ledger) = trip.before)

\* C10 witness: addItem and removeItem were called with an item whose
\* definition is equipped and of which the inventory holds none.
C10_RoundTripOnEquippedItem ==
  /\ trip.phase = "removed"
  /\ EquipmentTypeOf[DefOf[trip.item]] # None
  /\ equipmentSlots[EquipmentTypeOf[DefOf[trip.item]]] # None
  /\ DefOf[equipmentSlots[EquipmentTypeOf[DefOf[trip.item]]]] = DefOf[trip.item]
  /\ AmountOf(Ledger, DefOf[trip.item]) = 0

\* The inventory references to objects of definition d, and the number of
\* copies of d the character holds, the equipped one included.
RefsOf(l, d) == {o \in l.inventory[ItemTypeOf[d]] : DefOf[o] = d}
IsEquipped(l, o) ==
  /\ EquipmentTypeOf[DefOf[o]] # None
  /\ l.equipmentSlots[EquipmentTypeOf[DefOf[o]]] = o
Held(l, o) == AmountOf(l, DefOf[o]) + (IF IsEquipped(l, o) THEN 1 ELSE 0)
\* The equipment objects that are entries of the ledger.
HeldEquipment(l) ==
  {o \in Objs : EquipmentTypeOf[DefOf[o]] # None /\ l.items[DefOf[o]] = o}

\* C11: the inventory never holds a reference other than the one canonical
\* entry of a definition; and in every ledger state, addItem(i, a) followed by
\* addItem(j, b) with i and j of the same definition succeeds and leaves one
\* entry for that definition (the one held before, else i), whose amount grew
\* by a + b and which has exactly one reference in the inventory bucket.
C11_AddingTwiceGivesOneSummedEntry ==
  /\ \A d \in Defs : RefsOf(Ledger, d) \subseteq {items[d]}
  /\ \A i \in Objs, j \in Objs : \A a \in Amounts, b \in Amounts :
       DefOf[i] = DefOf[j] =>
         LET d == DefOf[i]
             l1 == addItem(Ledger, i, a)
             l2 == addItem(l1, j, b)
         IN /\ l1.ret /\ l2.ret
            /\ l2.items[d] = (IF items[d] # None THEN items[d] ELSE i)
            /\ AmountOf(l2, d) = AmountOf(Ledger, d) + a + b
            /\ RefsOf(l2, d) = {l2.items[d]}
            /\ \A d2 \in Defs \ {d} :
                 /\ l2.items[d2] = items[d2]
                 /\ AmountOf(l2, d2) = AmountOf(Ledger, d2)
                 /\ RefsOf(l2, d2) = RefsOf(Ledger, d2)
  /\ (trip.phase = "addedTwice" =>
        LET d == DefOf[trip.item]
        IN /\ AmountOf(Ledger, d) = trip.before.amounts[d] + trip.n + trip.n2
           /\ RefsOf(Ledger, d) = {items[d]})

\* C11 witness: two different objects of one definition were added in turn to
\* a ledger that held none; the first is the entry, with the summed amount.
C11_TwoObjectsOfOneDefinitionAdded ==
  /\ trip.phase = "addedTwice"
  /\ trip.item # trip.item2
  /\ trip.before.items[DefOf[trip.item]] = None
  /\ items[DefOf[trip.item]] = trip.item
  /\ amount[trip.item] = trip.n + trip.n2

\* C12 (as the code has it): for every equipment e that is an entry of the
\* ledger, equip(e) followed by unequip(type of e) leaves the slot empty and e
\* in the inventory as the one entry of its definition, with as many copies
\* as the character held before: 1 when it held a single one.
C12_EquipThenUnequipReturnsEveryCopy ==
  /\ \A e \in HeldEquipment(Ledger) :
       LET type == EquipmentTypeOf[DefOf[e]]
           l2 == unequip(equip(Ledger, e), type)
       IN /\ l2.equipmentSlots[type] = None
          /\ l2.items[DefOf[e]] = e
          /\ RefsOf(l2, DefOf[e]) = {e}
          /\ l2.amount[e] = Held(Ledger, e)
          /\ (Held(Ledger, e) = 1 => l2.amount[e] = 1)
  /\ (trip.phase = "unequipped" =>
        /\ equipmentSlots[EquipmentTypeOf[DefOf[trip.item]]] = None
        /\ trip.item \in inventory["EQUIPMENT"]
        /\ amount[trip.item] >= 1)

\* C12 as stated: for every equipment e that is an entry of the ledger,
\* equip(e) followed by unequip(type of e) leaves e in the inventory with
\* amount 1 and the slot empty.
C12_EquipThenUnequipLeavesAmountOne ==
  \A e \in HeldEquipment(Ledger) :
    LET type == EquipmentTypeOf[DefOf[e]]
        l2 == unequip(equip(Ledger, e), type)
    IN /\ l2.equipmentSlots[type] = None
       /\ e \in l2.inventory["EQUIPMENT"]
       /\ l2.amount[e] = 1

\* C12 witness: an equipment held twice was equipped and then unequipped, and
\* is back in the inventory with amount 2.
C12_StackEquippedAndUnequipped ==
  /\ trip.phase = "unequipped"
  /\ trip.before.amounts[DefOf[trip.item]] = 2
  /\ trip.before.equipmentSlots[EquipmentTypeOf[DefOf[trip.item]]] = None
  /\ equipmentSlots[EquipmentTypeOf[DefOf[trip.item]]] = None
  /\ trip.item \in inventory["EQUIPMENT"]
  /\ amount[trip.item] = 2

\* C13 (as the code has it): equip(e2), for an entry e2 of the ledger, when a
\* different item e1 occupies e2's slot: afterwards the slot holds e2, e1 is in
\* the inventory with one copy more than before (1 when the inventory held
\* none), and the ledger holds exactly one entry for e1 and one for e2, e2's
\* with one copy less and referenced by the inventory while copies remain.
C13_EquipReturnsIncumbentToInventory ==
  /\ \A e2 \in HeldEquipment(Ledger) :
       LET type == EquipmentTypeOf[DefOf[e2]]
           e1 == equipmentSlots[type]
           l == equip(Ledger, e2)
       IN (e1 # None /\ e1 # e2) =>
            /\ l.equipmentSlots[type] = e2
            /\ l.items[DefOf[e1]] = e1
            /\ RefsOf(l, DefOf[e1]) = {e1}
            /\ l.amount[e1] = AmountOf(Ledger, DefOf[e1]) + 1
            /\ (AmountOf(Ledger, DefOf[e1]) = 0 => l.amount[e1] = 1)
            /\ l.items[DefOf[e2]] = e2
            /\ l.amount[e2] = AmountOf(Ledger, DefOf[e2]) - 1
            /\ l.amount[e2] >= 0
            /\ RefsOf(l, DefOf[e2]) = (IF l.amount[e2] > 0 THEN {e2} ELSE {})
  /\ (trip.phase = "equipped" /\ trip.incumbent # None /\ trip.incumbent # trip.item =>
        /\ equipmentSlots[EquipmentTypeOf[DefOf[trip.item]]] = trip.item
        /\ trip.incumbent \in inventory["EQUIPMENT"]
        /\ items[DefOf[trip.incumbent]] = trip.incumbent
        /\ items[DefOf[trip.item]] = trip.item)

\* C13 as stated: equip(e2) when a different item e1 occupies e2's slot leaves
\* the slot holding e2, e1 in the inventory with amount 1, and one ledger
\* entry each for e1 and e2.
C13_EquipReturnsIncumbentWithAmountOne ==
  \A e2 \in HeldEquipment(Ledger) :
    LET type == EquipmentTypeOf[DefOf[e2]]
        e1 == equipmentSlots[type]
        l == equip(Ledger, e2)
    IN (e1 # None /\ e1 # e2) =>
         /\ l.equipmentSlots[type] = e2
         /\ e1 \in l.inventory["EQUIPMENT"]
         /\ l.amount[e1] = 1
         /\ l.items[DefOf[e1]] = e1
         /\ l.items[DefOf[e2]] = e2

\* C13 witness: an equipment was equipped over a different one of which the
\* inventory still held a copy; the incumbent is back with amount 2.
C13_EquippedOverStackedIncumbent ==
  /\ trip.phase = "equipped"
  /\ trip.incumbent # None
  /\ trip.incumbent # trip.item
  /\ trip.before.amounts[DefOf[trip.incumbent]] = 1
  /\ equipmentSlots[EquipmentTypeOf[DefOf[trip.item]]] = trip.item
  /\ trip.incumbent \in inventory["EQUIPMENT"]
  /\ amount[trip.incumbent] = 2

C15_EquippedObjectInInventoryOnlyWithSpareCopies ==
  \A type \in DOMAIN equipmentSlots :
    LET e == equipmentSlots[type]
    IN e # None =>
         /\ items[DefOf[e]] = e
         /\ amount[e] >= 0
         /\ (e \in inventory["EQUIPMENT"] <=> amount[e] > 0)

\* C15 as stated: the item object in an equipment slot is not at the same
\* time referenced by the inventory bucket.
C15_EquippedObjectNotInInventory ==
  \A type \in DOMAIN equipmentSlots :
    equipmentSlots[type] # None => equipmentSlots[type] \notin inventory["EQUIPMENT"]

\* C15 witness: after an equip from a stack, the equipped object is also
\* referenced by the inventory, with the spare copy as its amount.
C15_EquippedFromStack ==
  /\ trip.phase = "equipped"
  /\ equipmentSlots[EquipmentTypeOf[DefOf[trip.item]]] = trip.item
  /\ trip.item \in inventory["EQUIPMENT"]
  /\ amount[trip.item] = 1

(***************************************************************************)
(* SpecMoves: one character jumps, lands, attacks (in the air or not, or   *)
(* with a state that is no attack state), plays its intro, is stunned,     *)
(* blocks, uses a skill, is hurt and killed by body contacts, and is taken  *)
(* off the map and shown again.                                            *)
(***************************************************************************)
UnitDeltas == {1}
MoveStates == {"ATTACKING_MIDAIR", "ATTACKING", "IDLE"}

\* Character.h: setStunned() and setBlocking().
setStunned(w, c, stunned) == [w EXCEPT !.ch[c].isStunned = stunned]
setBlocking(w, c, blocking) == [w EXCEPT !.ch[c].isBlocking = blocking]

InitMoves ==
  /\ ch = [p |-> InitChar("p", 0, FALSE, FALSE, {"e"}),
           a |-> InitChar("a", 0, FALSE, FALSE, {}),
           e |-> InitChar("e", 0, FALSE, FALSE, {})]
  /\ pending = {}
  /\ nextId = 1
  /\ now = 0
  /\ hist = <<>>
  /\ last = NoCall
  /\ nEvents = 0
  /\ InitLedger
  /\ InitSide
  /\ InitFlags

UnitTick == TickBy(UnitDeltas)

\* An attack() call; `last' keeps the call, its result and the state it was
\* made in.
AttackNoted ==
  /\ Event
  /\ OnMap(Attacker)
  /\ \E s \in MoveStates : \E jit \in [ch[Attacker].inRangeTargets -> {0}] :
       LET w2 == attack(World, Attacker, s, 1, 0, jit)
       IN Commit([w2 EXCEPT !.last =
            [op |-> "attack", tgt |-> None, src |-> Attacker, dmg |-> 0, pre |-> 0,
             kind |-> "attack", state |-> s, ret |-> w2.ret,
             before |-> [ch |-> ch, pending |-> pending, nextId |-> nextId,
                         hist |-> hist]]])

Jump ==
  /\ Event
  /\ OnMap(Attacker)
  /\ jump(World, Attacker) # World
  /\ Commit(jump(World, Attacker))

Land ==
  /\ Event
  /\ OnMap(Attacker)
  /\ ch[Attacker].isJumping
  /\ \E hardFall \in BOOLEAN : Commit(land(World, Attacker, hardFall))

RunIntroAnimation ==
  /\ Event
  /\ OnMap(Attacker)
  /\ ~ch[Attacker].isRunningIntroAnimation
  /\ Commit(runIntroAnimation(World, Attacker))

SetStunned ==
  /\ Event
  /\ OnMap(Attacker)
  /\ Commit(setStunned(World, Attacker, ~ch[Attacker].isStunned))

SetBlocking ==
  /\ Event
  /\ OnMap(Attacker)
  /\ Commit(setBlocking(World, Attacker, ~ch[Attacker].isBlocking))

\* The map is deleted, or the party moves to another map.
RemoveFromMap ==
  /\ Event
  /\ removeFromMap(World, Attacker).ret
  /\ Commit(removeFromMap(World, Attacker))

ShowOnMap ==
  /\ Event
  /\ showOnMap(World, Attacker).ret
  /\ Commit(showOnMap(World, Attacker))

NextMoves ==
  \/ UnitTick
  \/ Fire
  \/ AttackNoted
  \/ Jump
  \/ Land
  \/ RunIntroAnimation
  \/ SetStunned
  \/ SetBlocking
  \/ BodyContactOfAttacker
  \/ ActivateSkill
  \/ RemoveFromMap
  \/ ShowOnMap

SpecMoves == InitMoves /\ [][NextMoves]_vars

\* A flag that outranks isAttacking in the priority order is set.
Outranked(w, c) ==
  \/ w.ch[c].isSetToKill
  \/ w.ch[c].isRunningIntroAnimation
  \/ w.ch[c].isStunned
  \/ w.ch[c].isTakingDamage
  \/ w.ch[c].isGettingUpFromFalling
  \/ w.ch[c].isHitWhileBlocking
  \/ w.ch[c].isBlocking

\* C16: while the attack(ATTACKING_MIDAIR, ...) of a character that was in
\* the air is neither over nor cancelled, every update() that resolves the
\* state with no higher-priority flag set leaves ATTACKING_MIDAIR as the
\* current state, whether the character has landed or not.
C16_MidairAttackStateHolds ==
  \A c \in Chars : \A delta \in Deltas :
    LET w2 == update(World, c, delta)
    IN (/\ ch[c].airAttack /\ w2.ch[c].airAttack
        /\ ch[c].isShownOnMap /\ ~ch[c].isKilled /\ ~w2.ch[c].isUsingSkill
        /\ ~Outranked(w2, c))
       => /\ w2.ch[c].currentState = "ATTACKING_MIDAIR"
          /\ w2.ch[c].currentState # "ATTACKING"

\* C16 witness: a character attacked in the air and landed, and two ticks of
\* the attack have resolved ATTACKING_MIDAIR.
C16_MidairStateKeptAfterLanding ==
  /\ ch[Attacker].airAttack
  /\ ~ch[Attacker].isJumping
  /\ ch[Attacker].currentState = "ATTACKING_MIDAIR"
  /\ ch[Attacker].previousState = "ATTACKING_MIDAIR"

\* C18: a character that is killed is set to kill.
C18_KilledImpliesSetToKill ==
  \A c \in Chars : ch[c].isKilled => ch[c].isSetToKill

\* C18 witness: the KILLED animation of a character has played and onKilled
\* has run.
C18_CharacterKilled ==
  \E c \in Chars : ch[c].isKilled /\ ch[c].health = 0 /\ ch[c].isShownOnMap

Busy(c) ==
  \/ c.isAttacking \/ c.isUsingSkill \/ c.isGettingUpFromFalling \/ c.isStunned
  \/ c.isTakingDamage \/ c.isBlocking \/ c.isRunningIntroAnimation

\* C20: in every state, an attack() call with a state that is no attack
\* state, or by a character that is attacking, using a skill, getting up from
\* a fall, stunned, taking damage, blocking or playing its intro, returns
\* false and changes no character (isAttacking, override state, callback-id
\* sets) and nothing of the scheduler; and so did every such call made.
C20_RejectedAttackChangesNothing ==
  /\ \A c \in Chars : \A s \in MoveStates \cup AttackStates :
       \A jit \in [ch[c].inRangeTargets -> {0}] :
         (~isAttackState(s) \/ Busy(ch[c])) =>
           LET w2 == attack(World, c, s, MaxHits, 1, jit)
           IN /\ ~w2.ret
              /\ w2.ch = ch /\ w2.pending = pending
              /\ w2.nextId = nextId /\ w2.hist = hist
  /\ (last.op = "attack" =>
        ((~isAttackState(last.state) \/ Busy(last.before.ch[last.src])) =>
           /\ ~last.ret
           /\ ch = last.before.ch /\ pending = last.before.pending
           /\ nextId = last.before.nextId /\ hist = last.before.hist))

\* C20 witness: an attack() call by a character that was getting up from a
\* fall was rejected.
C20_AttackRejectedWhileGettingUp ==
  /\ last.op = "attack"
  /\ isAttackState(last.state)
  /\ last.before.ch[last.src].isGettingUpFromFalling
  /\ ~last.before.ch[last.src].isAttacking
  /\ ~last.ret

(***************************************************************************)
(* SpecResolve: determineState() on every combination of the behavioural   *)
(* flags, with velocities on both sides of its thresholds.                 *)
(***************************************************************************)
InitResolve ==
  /\ ch = [p |-> InitChar("p", 0, FALSE, FALSE, {}),
           a |-> InitChar("a", 0, FALSE, FALSE, {}),
           e |-> InitChar("e", 0, FALSE, FALSE, {})]
  /\ pending = {}
  /\ nextId = 1
  /\ now = 0
  /\ hist = <<>>
  /\ last = NoCall
  /\ nEvents = 0
  /\ InitLedger
  /\ InitSide
  /\ flags \in [FlagNames -> BOOLEAN]
  /\ resolved = None

Resolve ==
  /\ resolved = None
  /\ \E x \in Physics : resolved' = determineState(flags, x)
  /\ UNCHANGED <<combatVars, ledgerVars, flags, sideVars>>

NextResolve == Resolve

SpecResolve == InitResolve /\ [][NextResolve]_vars

\* The priority order of the state machine: condition, state; "attack"
\* stands for the attack state of the sub-resolution.
Priority ==
  << <<"isSetToKill", "KILLED">>, <<"isRunningIntroAnimation", "INTRO">>,
     <<"isStunned", "STUNNED">>, <<"isTakingDamage", "TAKE_DAMAGE">>,
     <<"isGettingUpFromFalling", "FALLING_GETUP">>,
     <<"isHitWhileBlocking", "BLOCKING_HIT">>, <<"isBlocking", "BLOCKING">>,
     <<"isAttacking", "attack">>, <<"isDodgingBackward", "DODGING_BACKWARD">>,
     <<"isDodgingForward", "DODGING_FORWARD">>, <<"falling", "FALLING">>,
     <<"isJumping", "JUMPING">>, <<"isCrouching", "CROUCHING">>,
     <<"isStartRunning", "RUNNING_START">>, <<"isStopRunning", "RUNNING_STOP">>,
     <<"running", "RUNNING">> >>

Matches(name, f, x) ==
  CASE name = "falling" -> x.velocityY < kFallingVelocityY
    [] name = "running" -> \/ Abs(x.velocityX) > kRunningVelocityX
                           \/ Abs(x.previousVelocityX) > kRunningVelocityX
    [] OTHER -> f[name]

\* The state the priority order gives: that of the first condition that
\* matches, IDLE when none does.
FirstMatch(f, x) ==
  LET hits == {i \in DOMAIN Priority : Matches(Priority[i][1], f, x)}
  IN IF hits = {} THEN "IDLE"
     ELSE Priority[CHOOSE i \in hits : \A k \in hits : i <= k][2]

Agrees(state, f, x) ==
  IF FirstMatch(f, x) = "attack"
    THEN /\ isAttackState(state)
         /\ (x.overridingAttackState # None => state = x.overridingAttackState)
    ELSE state = FirstMatch(f, x)

\* C17: for every combination of the flags and every velocity, determineState
\* returns the state of the first matching condition of the priority order
\* KILLED > INTRO > STUNNED > TAKE_DAMAGE > FALLING_GETUP > BLOCKING_HIT >
\* BLOCKING > attack state > DODGING_BACKWARD > DODGING_FORWARD > FALLING >
\* JUMPING > CROUCHING > RUNNING_START > RUNNING_STOP > RUNNING > IDLE; with
\* isSetToKill it returns KILLED whatever else is set.
C17_FirstMatchInPriorityOrderWins ==
  /\ \A x \in Physics :
       /\ Agrees(determineState(flags, x), flags, x)
       /\ (flags["isSetToKill"] => determineState(flags, x) = "KILLED")
  /\ (resolved # None => \E x \in Physics : Agrees(resolved, flags, x))

\* C17 witness: determineState was called with every flag set and returned
\* KILLED.
C17_KilledWithEveryFlagSet ==
  /\ resolved = "KILLED"
  /\ \A n \in FlagNames : flags[n]


(***************************************************************************)
(* SpecFixtures: the fixtures of "p" under crouching, getting up and the   *)
(* three redefine calls.                                                   *)
(***************************************************************************)
\* The fixtures built in one behaviour, the three of defineBody included.
MaxFixtures == 9

restOfFixtures == <<pending, nextId, now, hist, last, nEvents, ledgerVars, flagVars,
                    portal, locks, cmdHistory>>

Crouch ==
  /\ crouch(World, "p") # World
  /\ fixtures.nextFixture + 1 <= MaxFixtures
  /\ ch' = crouch(World, "p").ch
  /\ fixtures' = redefineWeaponFixture(redefineBodyFixture(fixtures, "0", "0", TRUE),
                                       "0", TRUE)
  /\ UNCHANGED restOfFixtures

GetUpFromCrouching ==
  /\ getUpFromCrouching(World, "p") # World
  /\ fixtures.nextFixture + 1 <= MaxFixtures
  /\ ch' = getUpFromCrouching(World, "p").ch
  /\ fixtures' = redefineWeaponFixture(redefineBodyFixture(fixtures, "0", "0", FALSE),
                                       "0", FALSE)
  /\ UNCHANGED restOfFixtures

RedefineBodyFixture ==
  /\ fixtures.nextFixture <= MaxFixtures
  /\ fixtures' = redefineBodyFixture(fixtures, "0", "0", ch["p"].isCrouching)
  /\ UNCHANGED <<ch, restOfFixtures>>

RedefineFeetFixture ==
  /\ fixtures.nextFixture <= MaxFixtures
  /\ fixtures' = redefineFeetFixture(fixtures, "0")
  /\ UNCHANGED <<ch, restOfFixtures>>

RedefineWeaponFixture ==
  /\ fixtures.nextFixture <= MaxFixtures
  /\ fixtures' = redefineWeaponFixture(fixtures, "0", ch["p"].isCrouching)
  /\ UNCHANGED <<ch, restOfFixtures>>

NextFixtures ==
  \/ Crouch
  \/ GetUpFromCrouching
  \/ RedefineBodyFixture
  \/ RedefineFeetFixture
  \/ RedefineWeaponFixture

SpecFixtures == InitQuiet /\ [][NextFixtures]_vars

\* The fixtures on the body that no slot of _fixtures points to.
Orphans(fx) == {f \in fx.onBody : fx.slot[f.type] # f.id}

\* C30: after any sequence of redefineBodyFixture, redefineFeetFixture and
\* redefineWeaponFixture calls, each of the BODY, FEET and WEAPON slots holds
\* one live fixture of its own type, and the body carries no fixture that no
\* slot points to: a redefine call destroyed the previous fixture of its own
\* slot and left the other two slots alone.
C30_EachSlotHoldsItsOneLiveFixture ==
  /\ \A t \in FixtureTypes :
       /\ fixtures.slot[t] # NoFixture
       /\ \E f \in fixtures.onBody : f.id = fixtures.slot[t] /\ f.type = t
  /\ Orphans(fixtures) = {}
  /\ Cardinality(fixtures.onBody) = 3

(***************************************************************************)
(* SpecSkills: "p" activates skills, among attacks, landings, stuns,       *)
(* blocks and intro animations.                                            *)
(***************************************************************************)
\* The instances Skill::create makes for one character in one behaviour.
MaxForks == 2

\* An activateSkill() call, with a skill or with a null pointer; `last' keeps
\* the call, its result and the state it was made in.
ActivateSkillNoted ==
  /\ Event
  /\ OnMap(Attacker)
  /\ ch[Attacker].nextFork <= MaxForks
  /\ \E skill \in AllSkills \cup {None} :
       LET w2 == activateSkill(World, Attacker, skill)
       IN Commit([w2 EXCEPT !.last =
            [op |-> "activateSkill", tgt |-> None, src |-> Attacker, dmg |-> 0,
             pre |-> 0, kind |-> "activateSkill", skill |-> skill, ret |-> w2.ret,
             before |-> [ch |-> ch, pending |-> pending, nextId |-> nextId,
                         hist |-> hist]]])

NextSkills ==
  \/ UnitTick
  \/ Fire
  \/ ActivateSkillNoted
  \/ AttackNoted
  \/ Jump
  \/ Land
  \/ RunIntroAnimation
  \/ SetStunned
  \/ SetBlocking

SpecSkills == InitMoves /\ [][NextSkills]_vars

\* Activation is disallowed: one of the six flags is set.
Occupied(w, c) ==
  \/ w.ch[c].isAttacking
  \/ w.ch[c].isUsingSkill
  \/ w.ch[c].isGettingUpFromFalling
  \/ w.ch[c].isStunned
  \/ w.ch[c].isBlocking
  \/ w.ch[c].isRunningIntroAnimation

\* Some instance of the skill is among the active ones of c.
ActiveFor(w, c, skill) == \E inst \in w.ch[c].activeSkillInstances : inst.skill = skill

\* activateSkill asks canActivate() of the skill, and it refuses.
Refuses(w, c, skill) ==
  /\ ~(SkillProfile[skill].isToggleable /\ Instance(skill, 0) \in w.ch[c].activeSkillInstances)
  /\ w.ch[c].stamina + SkillProfile[skill].deltaStamina < 0

\* C21: activateSkill(skill) returns false and changes nothing (isUsingSkill,
\* the currently used skill, the active skill instances, the stamina, the
\* scheduled callbacks, nor anything else) when skill is null, when one of
\* isAttacking, isUsingSkill, isGettingUpFromFalling, isStunned, isBlocking,
\* isRunningIntroAnimation is set, or when the skill's canActivate() is asked
\* and refuses; in every reachable state and on every call made.
C21_RejectedActivationChangesNothing ==
  /\ \A c \in Chars, skill \in AllSkills \cup {None} :
       (\/ skill = None
        \/ Occupied(World, c)
        \/ Refuses(World, c, skill))
       => activateSkill(World, c, skill) = [World EXCEPT !.ret = FALSE]
  /\ last.op = "activateSkill" =>
       LET b == [World EXCEPT !.ch = last.before.ch, !.pending = last.before.pending,
                              !.nextId = last.before.nextId, !.hist = last.before.hist]
       IN (\/ last.skill = None
           \/ Occupied(b, last.src)
           \/ Refuses(b, last.src, last.skill))
          => /\ ~last.ret
             /\ ch = last.before.ch
             /\ pending = last.before.pending
             /\ nextId = last.before.nextId
             /\ hist = last.before.hist

\* A ForwardSlash was refused for want of stamina, with no flag in its way.
C21_ActivationRefusedForStamina ==
  /\ last.op = "activateSkill"
  /\ last.skill = "forwardSlash"
  /\ ~last.ret
  /\ ~Occupied([World EXCEPT !.ch = last.before.ch], last.src)
  /\ last.before.ch[last.src].stamina < 6
  /\ ch = last.before.ch

\* The closure that ends the skill of c is among the pending ones and is due.
SkillEndDue(c) ==
  \E cb \in pending :
    /\ cb.cl.kind = "skillEnd" /\ cb.cl.owner = c
    /\ cb.at + cb.delay <= now

\* C22: in a tick made while isUsingSkill is set, update() leaves
\* currentState and previousState as they are and starts no animation; while
\* isUsingSkill is set the state of the character changes in no step other
\* than the firing of the skill's duration closure when it is due, which
\* clears isUsingSkill and leaves FORCE_UPDATE; and a tick made with
\* isUsingSkill cleared resolves the state again.
C22_StateFrozenWhileUsingSkill ==
  [][\A c \in Chars :
       /\ (ch[c].isUsingSkill /\ now' # now) =>
            /\ ch'[c].currentState = ch[c].currentState
            /\ ch'[c].previousState = ch[c].previousState
            /\ ch'[c].killAnimation => ch[c].killAnimation
            /\ ch'[c].isUsingSkill
       /\ (/\ ch[c].isUsingSkill
           /\ \/ ch'[c].currentState # ch[c].currentState
              \/ ch'[c].previousState # ch[c].previousState
              \/ ~ch'[c].isUsingSkill) =>
            /\ SkillEndDue(c)
            /\ now' = now
            /\ ~ch'[c].isUsingSkill
            /\ ch'[c].currentState = "FORCE_UPDATE"
       /\ (~ch[c].isUsingSkill /\ now' # now /\ OnMap(c)) =>
            /\ ch'[c].currentState # "FORCE_UPDATE"
            /\ ch'[c].previousState = ch[c].currentState
    ]_vars

\* A skill of "p" is in use since an earlier tick, and "p" was stunned
\* meanwhile, yet its state is the one it had.
C22_StunnedWhileUsingSkill ==
  /\ ch["p"].isUsingSkill
  /\ ch["p"].isStunned
  /\ ch["p"].currentState = "IDLE"
  /\ \E id \in DOMAIN hist :
       hist[id].kind = "skillEnd" /\ hist[id].owner = "p"
       /\ hist[id].status = "pending" /\ hist[id].at < now

\* C29: an activateSkill() call that is not disallowed, on a toggleable skill
\* of which an instance made by an earlier activation is still active,
\* returns true and deactivates: no instance of the skill is active
\* afterwards, isUsingSkill and the currently used skill are cleared, no
\* stamina is spent and no callback is scheduled; whether the profile asks
\* for a forked instance or not.
C29_ActivatingActiveToggleableSkillDeactivates ==
  (/\ last.op = "activateSkill"
   /\ last.skill # None)
  => LET b == [World EXCEPT !.ch = last.before.ch] IN
     (/\ SkillProfile[last.skill].isToggleable
      /\ ActiveFor(b, last.src, last.skill)
      /\ ~Occupied(b, last.src))
     => /\ last.ret
        /\ ~ActiveFor(World, last.src, last.skill)
        /\ ~ch[last.src].isUsingSkill
        /\ ch[last.src].currentlyUsedSkill = None
        /\ ch[last.src].stamina = last.before.ch[last.src].stamina
        /\ pending = last.before.pending
        /\ nextId = last.before.nextId

\* The same, for the toggleable skills whose instance is not forked.
C29_ActiveUnforkedSkillDeactivated ==
  (/\ last.op = "activateSkill"
   /\ last.skill # None)
  => LET b == [World EXCEPT !.ch = last.before.ch] IN
     (/\ SkillProfile[last.skill].isToggleable
      /\ ~SkillProfile[last.skill].shouldForkInstance
      /\ ActiveFor(b, last.src, last.skill)
      /\ ~Occupied(b, last.src))
     => /\ last.ret
        /\ ~ActiveFor(World, last.src, last.skill)
        /\ ~ch[last.src].isUsingSkill
        /\ ch[last.src].currentlyUsedSkill = None
        /\ ch[last.src].stamina = last.before.ch[last.src].stamina
        /\ pending = last.before.pending
        /\ nextId = last.before.nextId

(***************************************************************************)
(* SpecStrikes: "p" and "e" attack each other with one or more hits; "e"   *)
(* has both "p" and its ally in range and may have raised its guard, "p"   *)
(* may have "e" in range, may stand in a trap and may dodge.               *)
(***************************************************************************)
InitStrikes ==
  /\ \E eBlocks \in BOOLEAN, pTrapped \in BOOLEAN, pRange \in {{}, {"e"}} :
       ch = [p |-> InitChar("p", 0, FALSE, pTrapped, pRange),
             a |-> InitChar("a", 0, FALSE, FALSE, {"e"}),
             e |-> InitChar("e", 0, eBlocks, FALSE, {"p", "a"})]
  /\ pending = {}
  /\ nextId = 1
  /\ now = 0
  /\ hist = <<>>
  /\ last = NoCall
  /\ nEvents = 0
  /\ InitLedger
  /\ InitSide
  /\ InitFlags

\* The attack states the fighters attack with.
StrikeStates == {"ATTACKING", "ATTACKING_MIDAIR"}

\* An attack() call of a fighter; `last' keeps the call, its result and the
\* state it was made in.
StrikeNoted ==
  /\ Event
  /\ \E c \in Fighters, s \in StrikeStates, n \in HitCounts :
       /\ OnMap(c)
       /\ \E jit \in [ch[c].inRangeTargets -> {0}] :
            LET w2 == attack(World, c, s, n, 1, jit)
            IN Commit([w2 EXCEPT !.last =
                 [op |-> "attack", tgt |-> None, src |-> c, dmg |-> 0, pre |-> 0,
                  kind |-> "attack", state |-> s, n |-> n, ret |-> w2.ret,
                  before |-> [ch |-> ch, pending |-> pending, nextId |-> nextId,
                              hist |-> hist]]])

DodgeOfAttacker == DodgeOf({Attacker})

NextStrikes ==
  \/ UnitTick
  \/ Fire
  \/ StrikeNoted
  \/ DodgeOfAttacker

SpecStrikes == InitStrikes /\ [][NextStrikes]_vars

\* The closures the latest call scheduled: those with an id it handed out.
ScheduledByLast == {cb \in pending : cb.id >= last.before.nextId}

\* C25: an attack() call with an attack state, made while attacking is not
\* disallowed, sets isAttacking, pins the state as the override unless it is
\* ATTACKING, and schedules the closure that clears the attack after the
\* attack animation's duration. With no target in range it returns false and
\* schedules no damage closure; otherwise it returns true and schedules
\* numTimesInflictDamage damage closures for every target in range that was
\* not invincible at the call, and none for any other character.
C25_AttackSchedulesHitsForVulnerableTargets ==
  (/\ last.op = "attack"
   /\ isAttackState(last.state)
   /\ ~Busy(last.before.ch[last.src]))
  => LET c == last.src
         b == last.before
         targets == b.ch[c].inRangeTargets
     IN /\ ch[c].isAttacking
        /\ ch[c].overridingAttackState =
             IF last.state # "ATTACKING" THEN last.state
             ELSE b.ch[c].overridingAttackState
        /\ \E cb \in ScheduledByLast :
             /\ cb.id = b.nextId
             /\ cb.cl.kind = "attackEnd" /\ cb.cl.owner = c
             /\ cb.delay = Profile[c].attackDuration
             /\ ch[c].cancelAttackCallbacks = b.ch[c].cancelAttackCallbacks \cup {cb.id}
             /\ \A other \in ScheduledByLast :
                  other.cl.kind = "attackEnd" => other = cb
        /\ pending = b.pending \cup ScheduledByLast
        /\ last.ret = (targets # {})
        /\ \A t \in Chars :
             Cardinality({cb \in ScheduledByLast :
                            cb.cl.kind = "damage" /\ cb.cl.target = t /\ cb.cl.owner = c})
               = IF t \in targets /\ ~b.ch[t].isInvincible THEN last.n ELSE 0
        /\ \A cb \in ScheduledByLast : cb.cl.kind \in {"attackEnd", "damage"}
        /\ \A t \in Chars : ch[t].health = b.ch[t].health

\* "p" had attacked with nobody in range, which returned false; then "e"
\* attacked with "p" and "a" in range while "p" was invincible.
C25_AttackedNobodyThenInvincible ==
  /\ last.op = "attack"
  /\ isAttackState(last.state)
  /\ ~Busy(last.before.ch[last.src])
  /\ last.src = "e"
  /\ last.before.ch["e"].inRangeTargets = {"p", "a"}
  /\ last.before.ch["p"].isInvincible
  /\ ~last.before.ch["a"].isInvincible
  /\ last.n = MaxHits
  /\ last.before.ch["p"].inRangeTargets = {}
  /\ last.before.ch["p"].isAttacking
  /\ ~\E id \in DOMAIN last.before.hist : last.before.hist[id].kind = "damage"

\* The pending closures that end an attack of c.
AttackEnds(c) == {cb \in pending : cb.cl.kind = "attackEnd" /\ cb.cl.owner = c}

\* receiveDamage was accepted and not blocked on c in the step made.
Damaged(c) == last'.op = "receiveDamage" /\ last'.kind = "applied" /\ last'.tgt = c

\* C26: while isAttacking is set, exactly one attack-end closure of the
\* character is pending: the one its current attack scheduled for the attack
\* animation's duration, tracked in the attack-callback-id set, and not yet
\* due; isAttacking and the pinned override stay as they are until that
\* closure fires, when the duration has elapsed, or cancelAttack is called by
\* an accepted receiveDamage, and both are cleared then. The closure of a
\* cancelled attack never runs, so no closure ends a later attack.
C26_AttackLastsItsDurationUnlessCancelled ==
  [][\A c \in Chars :
       /\ ch'[c].isAttacking =>
            /\ Cardinality({cb \in pending' : cb.cl.kind = "attackEnd" /\ cb.cl.owner = c}) = 1
            /\ \A cb \in pending' :
                 (cb.cl.kind = "attackEnd" /\ cb.cl.owner = c) =>
                   /\ ch'[c].cancelAttackCallbacks = {cb.id}
                   /\ cb.delay = Profile[c].attackDuration
                   /\ now' <= cb.at + cb.delay
       /\ ~ch'[c].isAttacking =>
            /\ ch'[c].overridingAttackState = None
            /\ ch'[c].cancelAttackCallbacks = {}
            /\ \A cb \in pending' : ~(cb.cl.kind = "attackEnd" /\ cb.cl.owner = c)
       /\ (ch[c].isAttacking /\ ch'[c].isAttacking) =>
            /\ ch'[c].overridingAttackState = ch[c].overridingAttackState
            /\ AttackEnds(c) \subseteq pending'
       /\ (ch[c].isAttacking /\ ~ch'[c].isAttacking) =>
            \/ Damaged(c)
            \/ \E cb \in AttackEnds(c) :
                 /\ cb.at + cb.delay = now /\ now' = now
                 /\ hist'[cb.id].status = "ran"
       /\ \A id \in DOMAIN hist' :
            (hist'[id].kind = "attackEnd" /\ hist'[id].status = "cancelled") =>
              hist'[id].runs = 0
    ]_vars

\* The first attack of "p" was cancelled by a hit; "p" attacks again, and the
\* clock has passed the time at which the first attack would have ended.
C26_SecondAttackOutlivesCancelledOne ==
  /\ ch["p"].isAttacking
  /\ \E id \in DOMAIN hist :
       /\ hist[id].kind = "attackEnd" /\ hist[id].owner = "p"
       /\ hist[id].status = "cancelled"
       /\ hist[id].at + hist[id].delay < now

\* The pending closures that end the block-hit state of c.
BlockHitEnds(c) == {cb \in pending : cb.cl.kind = "blockHitEnd" /\ cb.cl.owner = c}

\* C27: a receiveDamage that is accepted by a blocking character, from a
\* source or from a trap, changes no character but for the isHitWhileBlocking
\* flag of the blocking one: no health is lost, and isTakingDamage and
\* isSetToKill stay as they are; it schedules one closure, for the duration
\* of the block-hit animation, and nothing else; when that closure fires, at
\* its due time, the flag is cleared. A tick made with the flag set and no
\* flag of higher priority resolves the state BLOCKING_HIT.
C27_BlockedHitOnlyFlagsTheBlocker ==
  [][/\ \A t \in Chars, src \in Chars \cup {None}, damage \in DamageInputs :
          (/\ src # t
           /\ ch[t].isBlocking
           /\ ~ch[t].isSetToKill /\ ~ch[t].isInvincible
           /\ src # None => (~ch[src].isSetToKill /\ ~ch[src].isKilled))
          => LET w == receiveDamage(World, t, src, damage, kNumSecCantMove)
             IN /\ w.ret
                /\ w.ch = [ch EXCEPT ![t].isHitWhileBlocking = TRUE]
                /\ w.ch[t].health = ch[t].health
                /\ w.ch[t].isTakingDamage = ch[t].isTakingDamage
                /\ ~w.ch[t].isSetToKill
                /\ \E cb \in w.pending :
                     /\ w.pending = pending \cup {cb} /\ cb \notin pending
                     /\ cb.cl.kind = "blockHitEnd" /\ cb.cl.owner = t
                     /\ cb.delay = Profile[t].blockHitDuration /\ cb.at = now
     /\ (last'.op = "receiveDamage" /\ last'.kind = "blocked") =>
          /\ ch'[last'.tgt].health = last'.pre
          /\ ch'[last'.tgt].health = ch[last'.tgt].health
          /\ ch'[last'.tgt].isHitWhileBlocking
          /\ ch'[last'.tgt].isTakingDamage = ch[last'.tgt].isTakingDamage
          /\ ~ch'[last'.tgt].isSetToKill
     /\ \A c \in Chars :
          /\ (\E cb \in BlockHitEnds(c) : cb \notin pending') =>
               /\ ~ch'[c].isHitWhileBlocking
               /\ \A cb \in BlockHitEnds(c) \ pending' : cb.at + cb.delay = now
          /\ (/\ now' # now /\ ch'[c].isHitWhileBlocking /\ OnMap(c)
              /\ ~ch'[c].isSetToKill /\ ~ch'[c].isRunningIntroAnimation
              /\ ~ch'[c].isStunned /\ ~ch'[c].isTakingDamage
              /\ ~ch'[c].isGettingUpFromFalling /\ ~ch'[c].isUsingSkill) =>
               ch'[c].currentState = "BLOCKING_HIT"
    ]_vars

\* The hit of "p" on the blocking "e" was blocked, "e" showed BLOCKING_HIT,
\* and the closure has cleared the flag at full health.
C27_BlockedHitShownAndCleared ==
  /\ \E id \in DOMAIN hist :
       hist[id].kind = "blockHitEnd" /\ hist[id].owner = "e" /\ hist[id].status = "ran"
  /\ ch["e"].isBlocking
  /\ ~ch["e"].isHitWhileBlocking
  /\ ch["e"].previousState = "BLOCKING_HIT"
  /\ ch["e"].health = Profile["e"].fullHealth
  /\ ~ch["e"].isSetToKill

\* c is not attacking, tracks no callback id, and the scheduler holds no
\* attack-end or damage closure of c.
NoAttackLeft(w, c) ==
  /\ ~w.ch[c].isAttacking
  /\ w.ch[c].overridingAttackState = None
  /\ w.ch[c].cancelAttackCallbacks = {}
  /\ w.ch[c].inflictDamageCallbacks = {}
  /\ \A cb \in w.pending :
       cb.cl.owner = c => cb.cl.kind \notin {"attackEnd", "damage"}

\* C28: right after a receiveDamage that was accepted and not blocked, from a
\* source or from a trap, the damaged character is not attacking, has no
\* override state and no id in its attack-callback and damage-callback sets,
\* and none of its attack-end or damage closures is left in the scheduler: in
\* every reachable state for every such call, and after every such call made.
\* A damage closure that was pending at such a call never runs.
C28_DamageCancelsTheAttackOfTheDamaged ==
  /\ \A t \in Chars, src \in Chars \cup {None}, damage \in DamageInputs :
       (/\ src # t
        /\ ~ch[t].isBlocking
        /\ ~ch[t].isSetToKill /\ ~ch[t].isInvincible
        /\ src # None => (~ch[src].isSetToKill /\ ~ch[src].isKilled))
       => LET w == receiveDamage(World, t, src, damage, kNumSecCantMove)
          IN /\ w.ret
             /\ NoAttackLeft(w, t)
             /\ \A cb \in pending \ w.pending :
                  cb.cl.owner = t /\ cb.cl.kind \in {"attackEnd", "damage"}
  /\ (last.op = "receiveDamage" /\ last.kind = "applied") => NoAttackLeft(World, last.tgt)
  /\ \A id \in DamageIds :
       hist[id].stale => (hist[id].runs = 0 /\ hist[id].status = "cancelled")

\* The trap damaged "p" while hits of its attack on "e" were pending: they
\* were cancelled, and "e" has not been hurt although their time has passed.
C28_TrapCancelledPendingHits ==
  /\ last.op = "receiveDamage" /\ last.kind = "applied"
  /\ last.tgt = "p" /\ last.src = None
  /\ \E id \in DamageIds :
       /\ hist[id].owner = "p" /\ hist[id].target = "e"
       /\ hist[id].status = "cancelled"
       /\ hist[id].at + hist[id].delay < now
  /\ ch["e"].health = Profile["e"].fullHealth

(***************************************************************************)
(* SpecLocks: the two callback-id sets of one character and their mutexes, *)
(* with attack() and cancelAttack() on the game thread and the closures    *)
(* fired by a timer thread of the host. Every mutation of a set takes two  *)
(* steps, its beginning and its end.                                       *)
(***************************************************************************)
\* The attack() calls made in one behaviour.
MaxAttacks == 2

Threads == {"main", "timer"}
IdSets == {"cancelAttackCallbacks", "inflictDamageCallbacks"}
\* The ids runAfter gives to the closures of the n-th attack.
AttackEndId(n) == 2 * n - 1
DamageId(n) == 2 * n
CallbackIds == 1..(2 * MaxAttacks)

Lock(set) == [op |-> "lock", set |-> set, how |-> None, id |-> 0]
Unlock(set) == [op |-> "unlock", set |-> set, how |-> None, id |-> 0]
RunAfter(kind, id) == [op |-> "runAfter", set |-> None, how |-> kind, id |-> id]
Begin(set, how, id) == [op |-> "begin", set |-> set, how |-> how, id |-> id]
End(set, how, id) == [op |-> "end", set |-> set, how |-> how, id |-> id]

\* attack(): the closure is scheduled and its id emplaced under the lock_guard
\* of _cancelAttackCallbacksMutex; then inflictDamage schedules the damage
\* closure and emplaces its id under the one of _inflictDamageCallbacksMutex.
attackSteps(n) ==
  << Lock("cancelAttackCallbacks"),
     RunAfter("attackEnd", AttackEndId(n)),
     Begin("cancelAttackCallbacks", "emplace", AttackEndId(n)),
     End("cancelAttackCallbacks", "emplace", AttackEndId(n)),
     Unlock("cancelAttackCallbacks"),
     RunAfter("damage", DamageId(n)),
     Lock("inflictDamageCallbacks"),
     Begin("inflictDamageCallbacks", "emplace", DamageId(n)),
     End("inflictDamageCallbacks", "emplace", DamageId(n)),
     Unlock("inflictDamageCallbacks") >>

\* cancelAttack(): each set is walked and cleared under its lock_guard.
cancelAttackSteps ==
  << Lock("cancelAttackCallbacks"),
     Begin("cancelAttackCallbacks", "clear", 0),
     End("cancelAttackCallbacks", "clear", 0),
     Unlock("cancelAttackCallbacks"),
     Lock("inflictDamageCallbacks"),
     Begin("inflictDamageCallbacks", "clear", 0),
     End("inflictDamageCallbacks", "clear", 0),
     Unlock("inflictDamageCallbacks") >>

\* The closure of attack(): _cancelAttackCallbacks.erase(id), with no lock.
attackEndSteps(id) ==
  << Begin("cancelAttackCallbacks", "erase", id),
     End("cancelAttackCallbacks", "erase", id) >>

\* The closure of inflictDamage: the erase is under a lock_guard.
damageSteps(id) ==
  << Lock("inflictDamageCallbacks"),
     Begin("inflictDamageCallbacks", "erase", id),
     End("inflictDamageCallbacks", "erase", id),
     Unlock("inflictDamageCallbacks") >>

restOfLocks == <<combatVars, ledgerVars, flagVars, fixtures, portal, cmdHistory>>

\* The game thread calls attack().
StartAttack ==
  /\ locks.prog["main"] = <<>>
  /\ locks.attacks < MaxAttacks
  /\ locks' = [locks EXCEPT !.prog["main"] = attackSteps(locks.attacks + 1),
                            !.attacks = @ + 1]
  /\ UNCHANGED restOfLocks

\* The game thread calls cancelAttack(), from receiveDamage.
StartCancelAttack ==
  /\ locks.prog["main"] = <<>>
  /\ locks.attacks > 0
  /\ locks' = [locks EXCEPT !.prog["main"] = cancelAttackSteps]
  /\ UNCHANGED restOfLocks

\* The timer thread fires a scheduled closure.
FireOnTimer ==
  /\ locks.prog["timer"] = <<>>
  /\ \E cb \in locks.scheduled :
       locks' = [locks EXCEPT !.scheduled = @ \ {cb},
                              !.prog["timer"] =
                                 IF cb.kind = "attackEnd" THEN attackEndSteps(cb.id)
                                 ELSE damageSteps(cb.id)]
  /\ UNCHANGED restOfLocks

\* The set after a mutation that no other thread overlapped.
Mutated(set, how, id) ==
  CASE how = "emplace" -> set \cup {id}
    [] how = "erase" -> set \ {id}
    [] how = "clear" -> {}

\* A thread executes its next step. A lock waits for the mutex; a mutation
\* that overlapped one of another thread on the same set leaves any set.
StepOf(th) ==
  /\ locks.prog[th] # <<>>
  /\ LET ins == Head(locks.prog[th])
         other == CHOOSE o \in Threads : o # th
         l1 == [locks EXCEPT !.prog[th] = Tail(@)]
     IN CASE ins.op = "lock" ->
               /\ locks.holder[ins.set] = None
               /\ locks' = [l1 EXCEPT !.holder[ins.set] = th]
          [] ins.op = "unlock" ->
               locks' = [l1 EXCEPT !.holder[ins.set] = None]
          [] ins.op = "runAfter" ->
               locks' = [l1 EXCEPT !.scheduled = @ \cup {[kind |-> ins.how, id |-> ins.id]}]
          [] ins.op = "begin" ->
               locks' = [l1 EXCEPT
                          !.mutating[th] = ins.set,
                          !.unguarded = @ \/ (locks.holder[ins.set] # th),
                          !.racing[th] = (locks.mutating[other] = ins.set),
                          !.racing[other] = @ \/ (locks.mutating[other] = ins.set)]
          [] ins.op = "end" ->
               \E result \in IF locks.racing[th] THEN SUBSET CallbackIds
                             ELSE {Mutated(locks.sets[ins.set], ins.how, ins.id)} :
                 locks' = [l1 EXCEPT
                            !.mutating[th] = None,
                            !.racing[th] = FALSE,
                            !.sets[ins.set] = result,
                            !.scheduled = IF ins.how = "clear"
                                            THEN {cb \in @ : cb.id \notin locks.sets[ins.set]}
                                            ELSE @]
  /\ UNCHANGED restOfLocks

StepOfMain == StepOf("main")
StepOfTimer == StepOf("timer")

NextLocks ==
  \/ StartAttack
  \/ StartCancelAttack
  \/ FireOnTimer
  \/ StepOfMain
  \/ StepOfTimer

SpecLocks == InitQuiet /\ [][NextLocks]_vars

\* C24: a thread that is inside a mutation of the attack-callback-id set or
\* of the damage-callback-id set (an emplace when scheduling, the erase of a
\* closure that fires, the clear of cancelAttack) holds the mutex of that
\* set, so that no two threads are inside a mutation of one set at a time.
C24_SetsMutatedOnlyUnderTheirMutex ==
  /\ \A th \in Threads :
       locks.mutating[th] # None => locks.holder[locks.mutating[th]] = th
  /\ \A th \in Threads, other \in Threads :
       (th # other /\ locks.mutating[th] # None)
         => locks.mutating[other] # locks.mutating[th]
  /\ ~locks.unguarded

(***************************************************************************)
(* SpecPortal: GameMap::Portal::onInteract. The game thread fades the      *)
(* shade in and then starts a detached helper thread; the helper spins on  *)
(* the scheduler's pending count, hands the load of the target map to the  *)
(* game thread as an action of the shade and lets the Npcs act again. The  *)
(* frames of the game thread (ticks, fired closures, attacks) go on.       *)
(***************************************************************************)
getPendingCount(w) == Cardinality(w.pending)

Npcs == {"a", "e"}

restOfPortal == <<combatVars, ledgerVars, flagVars, fixtures, locks, cmdHistory>>

\* onInteract on the game thread: a locked portal the user cannot unlock only
\* notifies; otherwise the Npcs are paused and the shade starts to fade in.
OnInteract ==
  /\ portal.shade = "clear"
  /\ OnMap("p")
  /\ \E isLocked \in BOOLEAN, canBeUnlockedBy \in BOOLEAN :
       portal' = IF isLocked /\ ~canBeUnlockedBy THEN portal
                 ELSE [portal EXCEPT !.npcsAllowedToAct = FALSE, !.shade = "fadeIn"]
  /\ UNCHANGED restOfPortal

\* The CallFunc after the FadeIn: thread(...).detach().
StartHelper ==
  /\ portal.shade = "fadeIn"
  /\ portal' = [portal EXCEPT !.shade = "dark", !.helper = "spinning"]
  /\ UNCHANGED restOfPortal

\* The helper leaves `while (getPendingCount() > 0);`.
HelperLeavesSpin ==
  /\ portal.helper = "spinning"
  /\ getPendingCount(World) = 0
  /\ portal' = [portal EXCEPT !.helper = "runAction"]
  /\ UNCHANGED restOfPortal

\* The helper's runAction: the load is an action the game thread will step.
HelperRunAction ==
  /\ portal.helper = "runAction"
  /\ portal' = [portal EXCEPT !.helper = "resume", !.loadQueued = TRUE]
  /\ UNCHANGED restOfPortal

\* The helper's Npc::setNpcsAllowedToAct(true), its last statement.
HelperResumesNpcs ==
  /\ portal.helper = "resume"
  /\ portal' = [portal EXCEPT !.helper = "done", !.npcsAllowedToAct = TRUE]
  /\ UNCHANGED restOfPortal

\* The game thread steps the shade's action: loadGameMap and the fade out.
LoadGameMap ==
  /\ portal.loadQueued
  /\ portal' = [portal EXCEPT !.loadQueued = FALSE, !.loaded = TRUE,
                              !.shade = "fadeOut",
                              !.pendingAtLoad = getPendingCount(World)]
  /\ UNCHANGED restOfPortal

\* The player attacks before walking into the portal.
PlayerAttack ==
  /\ portal.shade = "clear"
  /\ AttackBy({"p"}, {"ATTACKING"}, {1}, {0}, {0})

\* An Npc that is allowed to act attacks, in the map the portal is in.
NpcAttack ==
  /\ portal.npcsAllowedToAct
  /\ ~portal.loaded
  /\ AttackBy(Npcs, {"ATTACKING"}, {1}, {0}, {0})

NextPortal ==
  \/ UnitTick
  \/ Fire
  \/ PlayerAttack
  \/ NpcAttack
  \/ OnInteract
  \/ StartHelper
  \/ HelperLeavesSpin
  \/ HelperRunAction
  \/ HelperResumesNpcs
  \/ LoadGameMap

SpecPortal == InitStrikes /\ [][NextPortal]_vars

\* C23: the map load that a portal interaction triggers happens only in a
\* state where the scheduler has no pending callback.
C23_MapLoadsOnlyWithNoPendingCallback ==
  portal.loaded => portal.pendingAtLoad = 0

(***************************************************************************)
(* The damage-callback-id set against the scheduler (SpecStrikes).         *)
(***************************************************************************)
\* The ids of the damage closures of c that the scheduler still holds.
PendingDamageIds(w, c) ==
  {cb.id : cb \in {x \in w.pending : x.cl.kind = "damage" /\ x.cl.owner = c}}

\* C31: in every reachable state the damage-callback-id set of a character
\* holds exactly the ids of its scheduled damage callbacks that have neither
\* fired nor been cancelled; a callback that has fired has left the set.
C31_DamageIdSetIsThePendingDamageCallbacks ==
  \A c \in Chars : ch[c].inflictDamageCallbacks = PendingDamageIds(World, c)

(***************************************************************************)
(* SpecDeath: lethal damage from attacks and from a trap, with skills of   *)
(* the player, under frames that keep being processed. The calls are made  *)
(* in the first seconds; the frames go on to the horizon.                  *)
(***************************************************************************)
\* The last second at which an attack or a skill is requested.
DeathLastCall == 3
\* The last second of SpecDeath.
DeathHorizon == 12

\* The player stands in a trap or not; the enemy has both in range.
InitDeath ==
  /\ \E pTrapped \in BOOLEAN :
       ch = [p |-> InitChar("p", 0, FALSE, pTrapped, {"e"}),
             a |-> InitChar("a", 0, FALSE, FALSE, {"e"}),
             e |-> InitChar("e", 0, FALSE, FALSE, {"p", "a"})]
  /\ pending = {}
  /\ nextId = 1
  /\ now = 0
  /\ hist = <<>>
  /\ last = NoCall
  /\ nEvents = 0
  /\ InitLedger
  /\ InitSide
  /\ InitFlags

DeathTick == TickUntil(UnitDeltas, DeathHorizon)

\* The enemy attacks with one or two hits.
DeathStrike ==
  /\ now <= DeathLastCall
  /\ AttackBy({"e"}, {"ATTACKING"}, HitCounts, {1}, {0})

\* The player requests a skill, with or without a cast animation.
DeathSkill ==
  /\ now <= DeathLastCall
  /\ \E skill \in {"slash", "aura", "forwardSlash"} :
       /\ Event
       /\ OnMap("p")
       /\ activateSkill(World, "p", skill).ret
       /\ Commit(activateSkill(World, "p", skill))

NextDeath ==
  \/ DeathTick
  \/ Fire
  \/ DeathStrike
  \/ DeathSkill

\* What a step of DeathTick does to the clock, and when it can be taken:
\* the steps of NextDeath that advance `now' are those of DeathTick.
FrameStep ==
  /\ Due(World) = {}
  /\ now < DeathHorizon
  /\ now' = now + 1

\* What a step of Fire does to the scheduler: while a closure is due, the
\* steps of NextDeath are those of Fire, and each takes a closure out.
FireStep ==
  /\ Due(World) # {}
  /\ pending' # pending

\* Frames and the scheduler's update pass keep being processed: weak fairness
\* of the frame, and of the update pass (written out, WF_pending(FireStep)).
SpecDeath ==
  /\ InitDeath
  /\ [][NextDeath]_vars
  /\ WF_now(FrameStep)
  /\ ([]<>(Due(World) = {}) \/ []<><<FireStep>>_pending)

Dying(c) == ch[c].isSetToKill /\ ch[c].isShownOnMap /\ ~ch[c].isKilled

InStateKilled(c) == ch[c].currentState = "KILLED"

Dead(c) == ch[c].isKilled /\ ch[c].body = "destroyed"

DoubleJump ==
  /\ Event
  /\ OnMap(Attacker)
  /\ Commit(doubleJump(World, Attacker))

Move ==
  /\ Event
  /\ OnMap(Attacker)
  /\ \E moveTowardsRight \in BOOLEAN :
       LET w2 == moveImpl(World, Attacker, moveTowardsRight)
       IN Commit([w2 EXCEPT !.last =
            [op |-> "moveImpl", tgt |-> None, src |-> Attacker, dmg |-> 0, pre |-> 0,
             kind |-> "moveImpl", right |-> moveTowardsRight,
             before |-> [ch |-> ch, pending |-> pending, nextId |-> nextId,
                         hist |-> hist]]])

NextSteps ==
  \/ UnitTick
  \/ Fire
  \/ Jump
  \/ DoubleJump
  \/ Land
  \/ Crouch
  \/ GetUpFromCrouching
  \/ Move

SpecSteps == InitMoves /\ [][NextSteps]_vars

\* C33: a character is never crouching and jumping at once: crouch changes
\* nothing while isJumping, jump changes nothing while isCrouching, and
\* moveLeft / moveRight change neither the facing nor the velocity of a
\* crouching character.
C33_NeverCrouchingAndJumping ==
  /\ \A c \in Chars :
       /\ ~(ch[c].isCrouching /\ ch[c].isJumping)
       /\ ch[c].isJumping => crouch(World, c) = World
       /\ ch[c].isCrouching =>
            /\ jump(World, c) = World
            /\ \A moveTowardsRight \in BOOLEAN :
                 moveImpl(World, c, moveTowardsRight) = World
  /\ (last.op = "moveImpl" /\ last.before.ch[last.src].isCrouching)
       => /\ ch[last.src].isFacingRight = last.before.ch[last.src].isFacingRight
          /\ ch[last.src].velocityX = last.before.ch[last.src].velocityX

\* C33 witness: the second jump() of a double jump came due while the player
\* was crouching, and the player is still crouching and not jumping.
C33_DelayedJumpRefusedWhileCrouching ==
  /\ ch[Attacker].isCrouching
  /\ ~ch[Attacker].isJumping
  /\ \E id \in DOMAIN hist : hist[id].kind = "jumpAgain" /\ hist[id].status = "ran"

(***************************************************************************)
(* The pinned attack state against the attacking flag (SpecStrikes).       *)
(***************************************************************************)
\* The state attack() pins for the requested attack state.
PinOf(attackState) == IF attackState # "ATTACKING" THEN attackState ELSE None

\* C34: in every reachable state a pinned override attack state implies
\* isAttacking, and after every accepted attack the pin is the one of that
\* attack, so that determineAttackState returns no override of an earlier one.
C34_PinnedOverrideImpliesAttacking ==
  /\ \A c \in Chars :
       /\ ch[c].overridingAttackState # None => ch[c].isAttacking
       /\ \A attackState \in StrikeStates :
            ~isAttackingDisallowed(World, c) =>
               LET w == attack(World, c, attackState, 1, 1, [t \in ch[c].inRangeTargets |-> 0])
               IN /\ w.ch[c].isAttacking
                  /\ w.ch[c].overridingAttackState = PinOf(attackState)
       /\ attackEndClosure(World, 0, c).ch[c].overridingAttackState = None
       /\ ~attackEndClosure(World, 0, c).ch[c].isAttacking
       /\ cancelAttack(World, c).ch[c].overridingAttackState = None
       /\ ~cancelAttack(World, c).ch[c].isAttacking
  /\ (last.op = "attack" /\ ~isAttackingDisallowed(last.before, last.src))
       => /\ ch[last.src].isAttacking
          /\ ch[last.src].overridingAttackState = PinOf(last.state)

\* C34 witness: a plain attack accepted after an earlier attack of the same
\* character has ended or has been cancelled; nothing is pinned.
C34_PlainAttackAfterAnEarlierAttack ==
  /\ last.op = "attack" /\ last.state = "ATTACKING"
  /\ ~isAttackingDisallowed(last.before, last.src)
  /\ ch[last.src].overridingAttackState = None
  /\ \E id \in DOMAIN last.before.hist :
       /\ last.before.hist[id].kind = "attackEnd"
       /\ last.before.hist[id].owner = last.src
       /\ last.before.hist[id].status \in {"ran", "cancelled"}

(***************************************************************************)
(* The health of a dying character (Spec).                                 *)
(***************************************************************************)
\* C35: once a character is flagged for death its health stays 0 in every
\* later state until it is killed; neither the regeneration tick nor useItem
\* raises the health of a dying character.
C35_DyingCharacterKeepsZeroHealth ==
  \A c \in Chars :
    (ch[c].isSetToKill /\ ~ch[c].isKilled) => ch[c].health = 0

(***************************************************************************)
(* The taking-damage window of a hit (SpecHits).                           *)
(***************************************************************************)
\* The closures that receiveDamage scheduled for hits on c whose duration
\* has not elapsed yet.
OpenDamageWindows(c) ==
  {id \in DOMAIN hist : /\ hist[id].kind = "takeDamageEnd"
                        /\ hist[id].owner = c
                        /\ now < hist[id].at + hist[id].delay}

\* C36: after every accepted, non-blocked receiveDamage from a source with
\* duration d, isTakingDamage stays true for the d seconds that follow the
\* hit, also when the clear-callback of an earlier hit comes due meanwhile.
C36_TakingDamageForTheWholeDuration ==
  \A c \in Chars : OpenDamageWindows(c) # {} => ch[c].isTakingDamage


(***************************************************************************)
(* SpecDash: "p" dodges and activates ForwardSlash, the two operations     *)
(* that set _isInvincible and schedule the closure that clears it.         *)
(***************************************************************************)
DodgeOfPlayer == DodgeOf({"p"})

\* activateSkill(forwardSlash) of "p", where the skill is accepted.
ForwardSlashOfPlayer ==
  /\ Event
  /\ OnMap("p")
  /\ activateSkill(World, "p", "forwardSlash").ret
  /\ Commit(activateSkill(World, "p", "forwardSlash"))

NextDash ==
  \/ UnitTick
  \/ Fire
  \/ DodgeOfPlayer
  \/ ForwardSlashOfPlayer
  \/ Jump
  \/ Land

SpecDash == InitMoves /\ [][NextDash]_vars

\* The closures of the given kind that c scheduled and whose delay has not
\* elapsed: the windows of ForwardSlash ("forwardSlashEnd") and of the dodge
\* ("invincibleEnd").
OpenWindows(kind, c) ==
  {id \in DOMAIN hist : /\ hist[id].kind = kind
                        /\ hist[id].owner = c
                        /\ now < hist[id].at + hist[id].delay}

\* C37: from the activation of ForwardSlash until its framesDuration has
\* elapsed the user is invincible, and from the start of a dodge until its
\* 0.2 seconds have elapsed the character is invincible: neither effect's
\* closure clears isInvincible inside the window of the other.
C37_InvincibleForTheWholeWindow ==
  \A c \in Chars :
    /\ OpenWindows("forwardSlashEnd", c) # {} => ch[c].isInvincible
    /\ OpenWindows("invincibleEnd", c) # {} => ch[c].isInvincible

\* The copies of definition d a character holds: the amount of its inventory
\* entry, plus one if an object of that definition occupies an equipment slot.
Quantity(l, d) ==
  AmountOf(l, d)
    + (IF \E type \in DOMAIN l.equipmentSlots :
            /\ l.equipmentSlots[type] # None
            /\ DefOf[l.equipmentSlots[type]] = d
         THEN 1 ELSE 0)
\* The same count, of the ledger as it was before a call.
QuantityBefore(v, d) ==
  v.amounts[d]
    + (IF \E type \in DOMAIN v.equipmentSlots :
            /\ v.equipmentSlots[type] # None
            /\ DefOf[v.equipmentSlots[type]] = d
         THEN 1 ELSE 0)

\* C38: in every ledger state, for every item definition, the inventory
\* amount plus one for an equipped object of the definition is left unchanged
\* by equip(e) of every equipment e that is an entry of the ledger, whether
\* its slot is empty, holds another item or holds e itself, and by unequip of
\* every slot; and every equip call made, and the unequip call after it, left
\* it unchanged.
C38_EquipAndUnequipConserveQuantity ==
  /\ \A d \in Defs :
       /\ \A e \in HeldEquipment(Ledger) :
            Quantity(equip(Ledger, e), d) = Quantity(Ledger, d)
       /\ \A type \in DOMAIN equipmentSlots :
            Quantity(unequip(Ledger, type), d) = Quantity(Ledger, d)
  /\ (trip.phase \in {"equipped", "unequipped"} =>
        \A d \in Defs : Quantity(Ledger, d) = QuantityBefore(trip.before, d))

\* C38 witness: the equipped item, of which the inventory held a further
\* copy, was equipped again; it is in its slot and the copy in the inventory.
C38_EquippedItemEquippedAgain ==
  /\ trip.phase = "equipped"
  /\ trip.incumbent = trip.item
  /\ equipmentSlots[EquipmentTypeOf[DefOf[trip.item]]] = trip.item
  /\ amount[trip.item] = 1

\* C39: an accepted receiveDamage never increases the target's health: the
\* damage the last accepted call was passed is not negative, and in every
\* state, for every attacker, every target in its range and every value of
\* the jitter, the damage that attack passes on (getDamageOutput) leaves the
\* target of an accepted, unblocked receiveDamage with no more health than it
\* had.
C39_AcceptedDamageNeverRaisesHealth ==
  /\ (last.op = "receiveDamage" /\ last.kind = "applied" => last.dmg >= 0)
  /\ \A c \in Chars : \A t \in ch[c].inRangeTargets :
       \A jitter \in (0 - kJitter)..kJitter :
         LET w2 == receiveDamage(World, t, c, getDamageOutput(World, c, jitter), 0)
         IN (w2.ret /\ ~ch[t].isBlocking) => w2.ch[t].health <= ch[t].health

(***************************************************************************)
(* SpecBuffer: the console's command history, a CircularBuffer<string>,    *)
(* under push (through Console::executeCmd), pop and clear.                *)
(***************************************************************************)
empty(b) == b.tail = b.head
full(b) == (b.tail + 1) % HistoryCapacity = b.head
size(b) == b.size

push(b, val) ==
  LET b1 == [b EXCEPT !.data[b.tail] = val]
      b2 == IF full(b1) THEN [b1 EXCEPT !.head = (@ + 1) % HistoryCapacity] ELSE b1
      b3 == [b2 EXCEPT !.tail = (@ + 1) % HistoryCapacity]
  IN IF b3.size < HistoryCapacity THEN [b3 EXCEPT !.size = @ + 1] ELSE b3

pop(b) ==
  LET b1 == [b EXCEPT !.head = (@ + 1) % HistoryCapacity]
  IN IF b1.size > 0 THEN [b1 EXCEPT !.size = @ - 1] ELSE b1

clear(b) == [b EXCEPT !.tail = 0, !.head = 0]

\* Console::executeCmd: the command is pushed and _current set to _tail.
executeCmd(b, cmd) ==
  LET b1 == push(b, cmd) IN [b1 EXCEPT !.current = b1.tail]

restOfBuffer == <<combatVars, ledgerVars, flagVars, fixtures, portal, locks>>

ExecuteCmd ==
  /\ \E cmd \in Cmds : cmdHistory' = executeCmd(cmdHistory, cmd)
  /\ UNCHANGED restOfBuffer

Pop ==
  /\ cmdHistory' = pop(cmdHistory)
  /\ UNCHANGED restOfBuffer

Clear ==
  /\ cmdHistory' = clear(cmdHistory)
  /\ UNCHANGED restOfBuffer

NextBuffer ==
  \/ ExecuteCmd
  \/ Pop
  \/ Clear

SpecBuffer == InitQuiet /\ [][NextBuffer]_vars

\* The elements stored between head and tail: the slots head, head + 1, ...
\* up to the one before tail, around the end of the array.
Stored(b) == (b.tail - b.head + HistoryCapacity) % HistoryCapacity

\* C40: after any sequence of push, pop and clear, size() is the number of
\* elements stored between head and tail, size() is 0 exactly when empty()
\* holds, and a pop on an empty buffer leaves it empty.
C40_SizeCountsTheStoredElements ==
  /\ size(cmdHistory) = Stored(cmdHistory)
  /\ (size(cmdHistory) = 0 <=> empty(cmdHistory))
  /\ (empty(cmdHistory) => empty(pop(cmdHistory)))
====
